---- MODULE Spec2Model ----
(***************************************************************************)
(* A model of delta-kernel-rs: the columnar extraction engine of           *)
(* kernel/src/simple_client/data.rs, the wire-name transform and schema    *)
(* generator of derive-macros/src/lib.rs, the action schema registry of    *)
(* kernel/src/actions/schemas.rs, and the scan boundary of                 *)
(* ffi/src/scan.rs, with the map accessors of data.rs and the parquet      *)
(* handler of kernel/src/simple_client/parquet.rs.                         *)
(***************************************************************************)
EXTENDS Integers, Sequences, FiniteSets, TLC

VARIABLES
    schema,         \* extract's `schema` argument: the field list of a StructType
    data,           \* SimpleData.data, the RecordBatch (a present container)
    stack,          \* the active extract_columns_from_array calls, innermost last
    out_col_array,  \* extract's `col_array`, filled through `out_col_array`
    result,         \* what extract returned (Pending while it runs)
    visits,         \* the (row_count-less) accessor lists handed to visitor.visit
    pc,             \* where extract is: "start", "columns", "visit", "done"
    num_rows,       \* self.data.num_rows()
    row_counts,     \* the row_count arguments handed to visitor.visit
    macro_call,     \* the macro function under expansion and its argument
    macro_ret,      \* what it returned (or that it panicked)
    mpc,            \* where the expansion is: "call", "done"
    statics,        \* the lazy_static cells of actions/schemas.rs
    heap,           \* every object boxed for the host so far, by handle
    arc_strong,     \* strong count of the Arc<dyn ExternEngineInterface>
    host_refs,      \* how many of those references the host still owns
    ffi_pc,         \* who runs: "host", "visitor", "visit_scan_data",
                    \* "file_callback"; "aborted"/"unwound" after a panic
    cur,            \* the boundary calls in progress and their locals
    ffi_ret,        \* what the last finished boundary call returned
    map_array,      \* a MapArray: its offsets, keys and values
    map_ret,        \* the last EngineMap call on it and what it returned
    files,          \* read_parquet_files' `files`: what is at each location
    locations,      \* the locations the returned iterator has yet to map
    read_results,   \* the items the iterator has yielded
    opened,         \* the locations File::open was called on
    pq_pc           \* "call", "iterating", "done", "dropped"

exVars == <<schema, data, stack, out_col_array, result, visits, pc, num_rows, row_counts>>

mcVars == <<macro_call, macro_ret, mpc>>

rgVars == <<statics>>

ffVars == <<heap, arc_strong, host_refs, ffi_pc, cur, ffi_ret>>

mpVars == <<map_array, map_ret>>

pqVars == <<files, locations, read_results, opened, pq_pc>>

vars == <<exVars, mcVars, rgVars, ffVars, mpVars, pqVars>>

\* What the extraction leaves alone.
nonExVars == <<mcVars, rgVars, ffVars, mpVars, pqVars>>

\* What the macro expansion leaves alone.
nonMcVars == <<exVars, rgVars, ffVars, mpVars, pqVars>>

\* What the schema registry leaves alone.
nonRgVars == <<exVars, mcVars, ffVars, mpVars, pqVars>>

\* What the scan boundary leaves alone.
nonFfVars == <<exVars, mcVars, rgVars, mpVars, pqVars>>

\* What the map accessors leave alone.
nonMpVars == <<exVars, mcVars, rgVars, ffVars, pqVars>>

\* What the parquet handler leaves alone.
nonPqVars == <<exVars, mcVars, rgVars, ffVars, mpVars>>

(***************************************************************************)
(* Bounds of the model.                                                    *)
(***************************************************************************)
\* Most fields (at all depths together) of a schema of the deep family.
MaxNodes == 3

\* Most top-level fields of a schema of the wide family.
MaxWide == 1

\* Most characters of an identifier given to get_schema_name.
MaxIdentLen == 4

\* Most named fields of a struct given to derive_schema.
MaxStructFields == 2

\* Most rows of a batch.
MaxRows == 2

\* Names of the fields of a struct, by position.
FieldNames == <<"a", "b", "c", "d", "e", "f">>

(***************************************************************************)
(* Schema model: DataType, StructField, StructType.                        *)
(***************************************************************************)
\* Declared types. "Short" stands for the primitives that have a native
\* representation but no row of extract_column's table; "Decimal" for a
\* declared type that has no native representation (try_into fails).
PrimitiveTypes == {"Boolean", "String", "Integer", "Long", "Short", "Decimal"}

LeafTypes == PrimitiveTypes \cup {"Array", "Map"}

\* Native (Arrow) types of a column.
ArrowTypes == {"Boolean", "Utf8", "Int32", "Int64", "Int16", "List", "Map", "Struct", "Null"}

\* What an Array or Map type is made of: the key type (Map), the element
\* or value type, and whether elements or values may be null.
Elem(key, value, contains_null) ==
    [key |-> key, value |-> value, contains_null |-> contains_null]

NoElem == Elem("", "", FALSE)

\* A DataType: its variant, the fields of a Struct, the Elem of an Array or
\* Map.
DataType(tag, fields, elem) == [tag |-> tag, fields |-> fields, elem |-> elem]

\* StructField { name, data_type, nullable }, the DataType laid out flat:
\* `fields` is the inner StructType of a Struct field and empty otherwise.
StructField_new(name, data_type, nullable) ==
    [name |-> name, data_type |-> data_type.tag, nullable |-> nullable,
     fields |-> data_type.fields, elem |-> data_type.elem]

\* A field of the input families (Array and Map elements are not looked at
\* by the extraction).
StructField(name, tag, nullable, fields) ==
    StructField_new(name, DataType(tag, fields, NoElem), nullable)

is_nullable(field) == field.nullable

(***************************************************************************)
(* Containers: a RecordBatch or a StructArray, or no container (None).     *)
(***************************************************************************)
\* A column: its name in the container's schema, its native type, whether
\* some row of it is null, and (a Struct column) its child columns.
Column(name, type, nulls, cols) ==
    [name |-> name, type |-> type, nulls |-> nulls, cols |-> cols]

\* Option<&dyn ProvidesColumnByName>
Some(cols, path) == [present |-> TRUE, cols |-> cols, path |-> path]

None == [present |-> FALSE, cols |-> <<>>, path |-> <<>>]

\* Option<&Arc<dyn Array>>: no column
NoCol == [found |-> FALSE]

FoundCol(c) == [found |-> TRUE, col |-> c]

\* ProvidesColumnByName::column_by_name: the first column of that name.
column_by_name(cols, name) ==
    LET hits == {i \in 1..Len(cols) : cols[i].name = name}
    IN  IF hits = {} THEN NoCol
        ELSE FoundCol(cols[CHOOSE i \in hits : \A j \in hits : i <= j])

\* LookupCol without the filter on the null type.
LookupCol_NoFilter(array, field) ==
    IF ~array.present THEN NoCol ELSE column_by_name(array.cols, field.name)

\* array.and_then(|a| a.column_by_name(&field.name))
\*      .filter(|a| *a.data_type() != ArrowDataType::Null)
LookupCol(array, field) ==
    IF ~array.present THEN NoCol
    ELSE LET c == column_by_name(array.cols, field.name)
         IN  IF c.found /\ c.col.type # "Null" THEN c ELSE NoCol

(***************************************************************************)
(* Input families: the schemas and batches extraction is checked on.       *)
(***************************************************************************)
RECURSIVE StructTypes(_, _, _), Fields(_, _, _)
\* The field lists of at most n fields in all (nested ones counted), for
\* positions k, k+1, ... of a struct, with leaves of the types T.
StructTypes(n, k, T) ==
    {<<>>} \cup
    UNION { { <<f>> \o rest : f \in Fields(m, k, T),
                              rest \in StructTypes(n - m, k + 1, T) } : m \in 1..n }

\* The fields named FieldNames[k] of at most m fields in all.
Fields(m, k, T) ==
    { StructField(FieldNames[k], t, nl, <<>>) : t \in T, nl \in BOOLEAN } \cup
    { StructField(FieldNames[k], "Struct", nl, fs) :
        nl \in BOOLEAN, fs \in StructTypes(m - 1, 1, T) }

RECURSIVE ColumnsFor(_, _, _)
\* The column lists a container may hold for `fields`: per field no column,
\* or one of a native type of A (null rows as N allows); a Struct column
\* holds columns for the field's inner fields.
ColumnsFor(fields, A, N) ==
    IF fields = <<>> THEN {<<>>}
    ELSE LET f == Head(fields)
             rest == ColumnsFor(Tail(fields), A, N)
             mine == UNION {
                 IF t = "Null" THEN {Column(f.name, t, TRUE, <<>>)}
                 ELSE IF t = "Struct"
                      THEN {Column(f.name, t, nl, cs) :
                              nl \in N, cs \in ColumnsFor(f.fields, A, N)}
                      ELSE {Column(f.name, t, nl, <<>>) : nl \in N} : t \in A }
         IN  rest \cup { <<c>> \o r : c \in mine, r \in rest }

\* Deep family: any shape of at most MaxNodes fields, String leaves.
DeepSchemas == StructTypes(MaxNodes, 1, {"String"})

DeepBatches(s) == ColumnsFor(s, {"Utf8", "Null", "Struct"}, {FALSE})

\* Wide family: at most MaxWide top-level fields of every declared type
\* against every native type.
WideSchemas ==
    LET WideFields(k) == { StructField(FieldNames[k], t, nl, <<>>) :
                             t \in LeafTypes, nl \in BOOLEAN } \cup
                         { StructField(FieldNames[k], "Struct", nl, fs) :
                             nl \in BOOLEAN, fs \in StructTypes(1, 1, {"String"}) }
    IN  UNION { { s \in [1..n -> UNION {WideFields(k) : k \in 1..n}] :
                    \A k \in 1..n : s[k].name = FieldNames[k] } : n \in 1..MaxWide }

WideBatches(s) == ColumnsFor(s, ArrowTypes, BOOLEAN)

(***************************************************************************)
(* extract_column's table and its error.                                   *)
(***************************************************************************)
\* The (native, declared) pairs whose arm pushes the column's accessor.
PushTable ==
    { <<"Boolean", "Boolean">>, <<"Utf8", "String">>, <<"Int32", "Integer">>,
      <<"Int64", "Long">>, <<"List", "Array">>, <<"Map", "Map">> }

\* MatchArm with a Struct column pushed as one accessor instead of entered.
MatchArm_NestStruct(native, declared) ==
    IF (native = "Struct" /\ declared = "Struct") \/ <<native, declared>> \in PushTable
    THEN "push" ELSE "mismatch"

\* MatchArm with the integer widths mixed up.
MatchArm_Widths(native, declared) ==
    IF native = "Struct" /\ declared = "Struct" THEN "recurse"
    ELSE IF <<native, declared>> \in
              (PushTable \ {<<"Int32", "Integer">>, <<"Int64", "Long">>})
                  \cup {<<"Int64", "Integer">>, <<"Int32", "Long">>}
         THEN "push"
    ELSE "mismatch"

\* The arm of extract_column's match a (native, declared) pair takes.
MatchArm(native, declared) ==
    IF native = "Struct" /\ declared = "Struct" THEN "recurse"
    ELSE IF <<native, declared>> \in PushTable THEN "push"
    ELSE "mismatch"

\* TryFrom<&DataType> for ArrowDataType: the native type of a declared type,
\* or an ArrowError.
TryIntoArrow(data_type) ==
    CASE data_type = "Boolean" -> [ok |-> TRUE,  type |-> "Boolean"]
      [] data_type = "String"  -> [ok |-> TRUE,  type |-> "Utf8"]
      [] data_type = "Integer" -> [ok |-> TRUE,  type |-> "Int32"]
      [] data_type = "Long"    -> [ok |-> TRUE,  type |-> "Int64"]
      [] data_type = "Short"   -> [ok |-> TRUE,  type |-> "Int16"]
      [] data_type = "Array"   -> [ok |-> TRUE,  type |-> "List"]
      [] data_type = "Map"     -> [ok |-> TRUE,  type |-> "Map"]
      [] data_type = "Struct"  -> [ok |-> TRUE,  type |-> "Struct"]
      [] data_type = "Decimal" -> [ok |-> FALSE, type |-> "ArrowError"]

\* An Error value: its variant, the message template, and what the message
\* is formatted from ("" where the template has no such hole).
Error(kind, msg, field_name, data_type, arrow_data_type) ==
    [kind |-> kind, msg |-> msg, field |-> field_name,
     declared |-> data_type, native |-> arrow_data_type]

MissingData(field_name) ==
    Error("MissingData", "Found required field {}, but it's null", field_name, "", "")

\* get_error_for_types with one message for every declared type.
get_error_for_types_OneMessage(data_type, arrow_data_type, field_name) ==
    Error("UnexpectedColumnType",
          "On {}: Unsupported data type {}: {}", field_name, data_type, "")

get_error_for_types(data_type, arrow_data_type, field_name) ==
    LET expected_type == TryIntoArrow(data_type)
    IN  IF expected_type.ok
        THEN IF expected_type.type = arrow_data_type
             THEN Error("UnexpectedColumnType",
                        "On {}: Don't know how to extract something of type {}",
                        field_name, data_type, "")
             ELSE Error("UnexpectedColumnType",
                        "Type mismatch on {}: expected {}, got {}",
                        field_name, data_type, arrow_data_type)
        ELSE Error("UnexpectedColumnType",
                   "On {}: Unsupported data type {}: {}",
                   field_name, data_type, "")

Pending == Error("Pending", "", "", "", "")

Ok == Error("Ok", "", "", "", "")

\* What the caller's visitor may return from visit.
VisitorResults ==
    {Ok, Error("MissingData", "visitor", "", "", ""), Error("Generic", "visitor", "", "", "")}

(***************************************************************************)
(* Accessors: the &dyn GetData pushed onto out_col_array.                  *)
(***************************************************************************)
\* col.as_boolean(), col.as_string(), ...: a reference to the column at
\* `path`, read as its native type.
ColAccessor(native, path) == [kind |-> native, col |-> path]

\* &(): the null placeholder
UnitAccessor == [kind |-> "Unit", col |-> <<>>]

(***************************************************************************)
(* EngineData::extract and the recursion under it.                         *)
(***************************************************************************)
\* One active call of extract_columns_from_array: its schema, the field the
\* loop is at, and its array argument.
Frame(fields, array) == [fields |-> fields, idx |-> 1, array |-> array]

Top == stack[Len(stack)]

CurField == Top.fields[Top.idx]

\* The loop moves to the next field of the innermost call.
Advance == [stack EXCEPT ![Len(stack)].idx = @ + 1]

\* An error that is kept while extract goes on to the visitor.
Fail_Continue(err) ==
    /\ result' = err
    /\ stack' = <<>>
    /\ pc' = "visit"
    /\ UNCHANGED <<schema, data, out_col_array, visits, num_rows, row_counts, nonExVars>>

\* `?` and `return Err`: the error leaves every active call and extract;
\* nothing more is pushed and the visitor is not reached. (out_col_array
\* keeps what col_array held when extract dropped it.)
Fail(err) ==
    /\ result' = err
    /\ stack' = <<>>
    /\ pc' = "done"
    /\ UNCHANGED <<schema, data, out_col_array, visits, num_rows, row_counts, nonExVars>>

\* MayBeNull with the required-field check lost.
MayBeNull_Always(array, field) == TRUE

\* MayBeNull with the test of the container inverted.
MayBeNull_Inverted(array, field) == array.present \/ is_nullable(field)

\* MayBeNull that looks at the field's own nullability only.
MayBeNull_FieldOnly(array, field) == is_nullable(field)

\* `array.is_none() || field.is_nullable()`
MayBeNull(array, field) == ~array.present \/ is_nullable(field)

\* SimpleData::length
length == num_rows

\* extract: col_array = vec![], then extract_columns(&mut col_array, &schema),
\* which calls extract_columns_from_array(.., Some(&self.data)).
extract ==
    /\ pc = "start"
    /\ out_col_array' = <<>>
    /\ stack' = <<Frame(schema, Some(data, <<>>))>>
    /\ pc' = "columns"
    /\ UNCHANGED <<schema, data, result, visits, num_rows, row_counts, nonExVars>>

\* extract_column(out_col_array, field, col)
extract_column(field, col, path) ==
    LET arm == MatchArm(col.type, field.data_type)
    IN  \/ /\ arm = "recurse"
           /\ stack' = Append(Advance, Frame(field.fields, Some(col.cols, path)))
           /\ UNCHANGED <<schema, data, out_col_array, result, visits, pc, num_rows, row_counts, nonExVars>>
        \/ /\ arm = "push"
           /\ out_col_array' = Append(out_col_array, ColAccessor(col.type, path))
           /\ stack' = Advance
           /\ UNCHANGED <<schema, data, result, visits, pc, num_rows, row_counts, nonExVars>>
        \/ /\ arm = "mismatch"
           /\ Fail(get_error_for_types(field.data_type, col.type, field.name))

\* One turn of the loop of extract_columns_from_array, on the next field of
\* the innermost call.
extract_columns_from_array ==
    /\ pc = "columns"
    /\ stack # <<>>
    /\ Top.idx <= Len(Top.fields)
    /\ LET field == CurField
           array == Top.array
           col == LookupCol(array, field)
       IN  \/ /\ col.found
              /\ extract_column(field, col.col, Append(array.path, field.name))
           \/ /\ ~col.found
              /\ MayBeNull(array, field)
              /\ field.data_type = "Struct"
              /\ stack' = Append(Advance, Frame(field.fields, None))
              /\ UNCHANGED <<schema, data, out_col_array, result, visits, pc, num_rows, row_counts, nonExVars>>
           \/ /\ ~col.found
              /\ MayBeNull(array, field)
              /\ field.data_type # "Struct"
              /\ out_col_array' = Append(out_col_array, UnitAccessor)
              /\ stack' = Advance
              /\ UNCHANGED <<schema, data, result, visits, pc, num_rows, row_counts, nonExVars>>
           \/ /\ ~col.found
              /\ ~MayBeNull(array, field)
              /\ Fail(MissingData(field.name))

\* The loop of the innermost call is over: it returns Ok(()) to its caller,
\* the outermost one to extract.
return_ok ==
    /\ pc = "columns"
    /\ stack # <<>>
    /\ Top.idx > Len(Top.fields)
    /\ stack' = SubSeq(stack, 1, Len(stack) - 1)
    /\ pc' = IF Len(stack) = 1 THEN "visit" ELSE "columns"
    /\ UNCHANGED <<schema, data, out_col_array, result, visits, num_rows, row_counts, nonExVars>>

\* visitor.visit(self.length(), &col_array), whose result extract returns.
visit ==
    /\ pc = "visit"
    /\ visits' = Append(visits, out_col_array)
    /\ row_counts' = Append(row_counts, length)
    /\ \E r \in VisitorResults : result' = r
    /\ pc' = "done"
    /\ UNCHANGED <<schema, data, stack, out_col_array, num_rows, nonExVars>>

ExInit ==
    /\ \/ schema \in DeepSchemas /\ data \in DeepBatches(schema)
       \/ schema \in WideSchemas /\ data \in WideBatches(schema)
    /\ stack = <<>>
    /\ out_col_array = <<>>
    /\ result = Pending
    /\ visits = <<>>
    /\ pc = "start"
    /\ num_rows \in 1..MaxRows
    /\ row_counts = <<>>

\* No extract call is made.
ExIdle ==
    /\ schema = <<>> /\ data = <<>> /\ stack = <<>> /\ out_col_array = <<>>
    /\ result = Pending /\ visits = <<>> /\ pc = "idle"
    /\ num_rows = 0 /\ row_counts = <<>>

(***************************************************************************)
(* derive-macros: the wire-name transform and derive(Schema).              *)
(***************************************************************************)
\* Identifiers and other strings the macros look into are sequences of
\* characters.
LowerCase ==
    <<"a", "b", "c", "d", "e", "f", "g", "h", "i", "j", "k", "l", "m",
      "n", "o", "p", "q", "r", "s", "t", "u", "v", "w", "x", "y", "z">>

UpperCase ==
    <<"A", "B", "C", "D", "E", "F", "G", "H", "I", "J", "K", "L", "M",
      "N", "O", "P", "Q", "R", "S", "T", "U", "V", "W", "X", "Y", "Z">>

Digits == {"0", "1", "2", "3", "4", "5", "6", "7", "8", "9"}

Range(seq) == {seq[i] : i \in 1..Len(seq)}

\* char::to_ascii_uppercase
to_ascii_uppercase(c) ==
    IF c \in Range(LowerCase)
    THEN UpperCase[CHOOSE i \in 1..Len(LowerCase) : LowerCase[i] = c]
    ELSE c

\* A panic of the macro (a compile error of the deriving crate), or what
\* it returned.
Panic(msg) == [panic |-> TRUE, msg |-> msg, value |-> <<>>]

Returned(value) == [panic |-> FALSE, msg |-> "", value |-> value]

\* A legal identifier: a letter or '_' first, letters, digits and '_' after,
\* and not '_' alone.
IsIdent(string) ==
    /\ string # <<>>
    /\ string # <<"_">>
    /\ string[1] \in Range(LowerCase) \cup Range(UpperCase) \cup {"_"}
    /\ \A i \in 1..Len(string) :
          string[i] \in Range(LowerCase) \cup Range(UpperCase) \cup Digits \cup {"_"}

\* Ident::new(&ret, span), which panics on a string that is no identifier.
Ident_new(string) ==
    IF IsIdent(string) THEN Returned(string)
    ELSE Panic("not a valid identifier")

\* filter_map_chars that never clears next_caps.
RECURSIVE filter_map_chars_NoReset(_, _)
filter_map_chars_NoReset(chars, next_caps) ==
    IF chars = <<>> THEN <<>>
    ELSE LET c == Head(chars)
         IN  IF c = "_" THEN filter_map_chars_NoReset(Tail(chars), TRUE)
             ELSE IF next_caps
                  THEN <<to_ascii_uppercase(c)>>
                           \o filter_map_chars_NoReset(Tail(chars), TRUE)
                  ELSE <<c>> \o filter_map_chars_NoReset(Tail(chars), FALSE)

\* snake_name.chars().filter_map(|c| ...).collect(), the closure's
\* next_caps threaded through.
RECURSIVE filter_map_chars(_, _)
filter_map_chars(chars, next_caps) ==
    IF chars = <<>> THEN <<>>
    ELSE LET c == Head(chars)
         IN  IF c = "_" THEN filter_map_chars(Tail(chars), TRUE)
             ELSE IF next_caps
                  THEN <<to_ascii_uppercase(c)>> \o filter_map_chars(Tail(chars), FALSE)
                  ELSE <<c>> \o filter_map_chars(Tail(chars), FALSE)

get_schema_name(name) ==
    LET snake_name == name
        ret == filter_map_chars(snake_name, FALSE)
    IN  Ident_new(ret)

\* A path segment: its ident and its PathArguments ("None",
\* "AngleBracketed" with the tokens of <...>, or "Parenthesized").
Segment(ident, arguments, args) ==
    [ident |-> ident, arguments |-> arguments, args |-> args]

\* A syn::Type: Type::Path with its segments, or another variant.
TypePath(segments) == [kind |-> "Path", segments |-> segments]

TypeOther(kind) == [kind |-> kind, segments |-> <<>>]

\* The tokens of one generated element of the vec!: the get_field call.
GetFieldCall(type_ident, turbofish, name) ==
    [type_ident |-> type_ident, turbofish |-> turbofish, name |-> name]

\* schema_field with the generic arguments of the type left out.
schema_field_NoTurbofish(field) ==
    LET name == get_schema_name(field.ident)
    IN  IF name.panic THEN name
        ELSE IF field.ty.kind = "Path"
        THEN IF field.ty.segments # <<>>
             THEN Returned(GetFieldCall(field.ty.segments[Len(field.ty.segments)].ident,
                                        "", name.value))
             ELSE Panic("Couldn't get type")
        ELSE Panic("Can't handle type")

\* The closure of gen_schema_fields for one field.
schema_field(field) ==
    LET name == get_schema_name(field.ident)
    IN  IF name.panic THEN name
        ELSE IF field.ty.kind = "Path"
        THEN IF field.ty.segments # <<>>
             THEN LET fin == field.ty.segments[Len(field.ty.segments)]
                  IN  IF fin.arguments = "AngleBracketed"
                      THEN Returned(GetFieldCall(fin.ident, fin.args, name.value))
                      ELSE Returned(GetFieldCall(fin.ident, "", name.value))
             ELSE Panic("Couldn't get type")
        ELSE Panic("Can't handle type")

\* fields.iter().map(..) as quote! walks it: the calls in field order, or
\* the first panic.
RECURSIVE map_schema_fields(_)
map_schema_fields(fields) ==
    IF fields = <<>> THEN Returned(<<>>)
    ELSE LET first == schema_field(Head(fields))
         IN  IF first.panic THEN first
             ELSE LET rest == map_schema_fields(Tail(fields))
                  IN  IF rest.panic THEN rest
                      ELSE Returned(<<first.value>> \o rest.value)

gen_schema_fields(input_data) ==
    IF input_data.kind = "StructNamed"
    THEN map_schema_fields(input_data.fields)
    ELSE Panic("this derive macro only works on structs with named fields")

\* derive_schema: the impl of GetField for the struct, whose get_field
\* returns StructField::new(name, StructType::new(vec![..]), false).
derive_schema(input) ==
    LET struct_ident == input.ident
        schema_fields == gen_schema_fields(input.data)
    IN  IF schema_fields.panic THEN schema_fields
        ELSE Returned([impl_for |-> struct_ident,
                       name |-> "name",
                       struct_type |-> schema_fields.value,
                       nullable |-> FALSE])

\* The identifiers get_schema_name is checked on: the legal ones of at most
\* MaxIdentLen characters over a small alphabet, and two of the kernel's.
IdentChars == {"_", "a", "A", "1"}

schema_string == <<"s", "c", "h", "e", "m", "a", "_", "s", "t", "r", "i", "n", "g">>

schemaString == <<"s", "c", "h", "e", "m", "a", "S", "t", "r", "i", "n", "g">>

id == <<"i", "d">>

NameInputs ==
    { i \in UNION { [1..n -> IdentChars] : n \in 1..MaxIdentLen } : IsIdent(i) }
        \cup {schema_string, id}

\* The structs derive_schema is checked on: at most MaxStructFields named
\* fields, and the inputs the macro rejects.
DeriveIdents == {id, schema_string, <<"a", "_", "_", "b">>}

DeriveTypes ==
    { TypePath(<<Segment("String", "None", "")>>),
      TypePath(<<Segment("Option", "AngleBracketed", "<String>")>>),
      TypePath(<<Segment("Vec", "AngleBracketed", "<String>")>>),
      TypePath(<<Segment("std", "None", ""), Segment("collections", "None", ""),
                 Segment("HashMap", "AngleBracketed", "<String, String>")>>),
      TypePath(<<Segment("Fn", "Parenthesized", "")>>),
      TypeOther("Reference") }

NamedFields ==
    { fs \in UNION { [1..n -> [ident : DeriveIdents, ty : DeriveTypes]] :
                       n \in 0..MaxStructFields } :
        \A i, j \in 1..Len(fs) : i # j => fs[i].ident # fs[j].ident }

DeriveInputs ==
    { [ident |-> "Metadata", data |-> [kind |-> "StructNamed", fields |-> fs]] :
        fs \in NamedFields }
    \cup { [ident |-> "Metadata", data |-> [kind |-> k, fields |-> <<>>]] :
             k \in {"StructUnnamed", "StructUnit", "Enum", "Union"} }

\* The compiler expands one use of the macro function.
call_get_schema_name ==
    /\ mpc = "call"
    /\ macro_call.fn = "get_schema_name"
    /\ macro_ret' = get_schema_name(macro_call.arg)
    /\ mpc' = "done"
    /\ UNCHANGED <<macro_call, nonMcVars>>

call_derive_schema ==
    /\ mpc = "call"
    /\ macro_call.fn = "derive_schema"
    /\ macro_ret' = derive_schema(macro_call.arg)
    /\ mpc' = "done"
    /\ UNCHANGED <<macro_call, nonMcVars>>

McInit ==
    /\ macro_call \in { [fn |-> "get_schema_name", arg |-> i] : i \in NameInputs }
           \cup { [fn |-> "derive_schema", arg |-> d] : d \in DeriveInputs }
    /\ macro_ret = Returned(<<>>)
    /\ mpc = "call"

\* No macro is expanded.
McIdle ==
    /\ macro_call = [fn |-> "none", arg |-> <<>>]
    /\ macro_ret = Returned(<<>>)
    /\ mpc = "idle"

(***************************************************************************)
(* actions/schemas.rs: the action schema registry.                         *)
(***************************************************************************)
DataType_STRING == DataType("String", <<>>, NoElem)

DataType_LONG == DataType("Long", <<>>, NoElem)

DataType_INTEGER == DataType("Integer", <<>>, NoElem)

DataType_BOOLEAN == DataType("Boolean", <<>>, NoElem)

\* StructType::new(fields), also as the DataType of a field
StructType_new(fields) == DataType("Struct", fields, NoElem)

\* MapType::new(key_type, value_type, value_contains_null)
MapType_new(key_type, value_type, value_contains_null) ==
    DataType("Map", <<>>, Elem(key_type.tag, value_type.tag, value_contains_null))

\* ArrayType::new(element_type, contains_null)
ArrayType_new(element_type, contains_null) ==
    DataType("Array", <<>>, Elem("", element_type.tag, contains_null))

tags_field ==
    StructField_new("tags", MapType_new(DataType_STRING, DataType_STRING, TRUE), TRUE)

partition_values_field ==
    StructField_new("partitionValues", MapType_new(DataType_STRING, DataType_STRING, TRUE), FALSE)

deletion_vector_field ==
    StructField_new("deletionVector",
        StructType_new(<<
            StructField_new("storageType", DataType_STRING, FALSE),
            StructField_new("pathOrInlineDv", DataType_STRING, FALSE),
            StructField_new("offset", DataType_INTEGER, TRUE),
            StructField_new("sizeInBytes", DataType_INTEGER, FALSE),
            StructField_new("cardinality", DataType_LONG, FALSE) >>),
        TRUE)

METADATA_FIELD ==
    StructField_new("metaData",
        StructType_new(<<
            StructField_new("id", DataType_STRING, FALSE),
            StructField_new("name", DataType_STRING, TRUE),
            StructField_new("description", DataType_STRING, TRUE),
            StructField_new("format",
                StructType_new(<<
                    StructField_new("provider", DataType_STRING, FALSE),
                    StructField_new("options", MapType_new(DataType_STRING, DataType_STRING, TRUE), TRUE) >>),
                FALSE),
            StructField_new("schemaString", DataType_STRING, FALSE),
            StructField_new("partitionColumns", ArrayType_new(DataType_STRING, FALSE), FALSE),
            StructField_new("createdTime", DataType_LONG, TRUE),
            StructField_new("configuration", MapType_new(DataType_STRING, DataType_STRING, TRUE), FALSE) >>),
        TRUE)

\* PROTOCOL_FIELD declared required.
PROTOCOL_FIELD_Required ==
    StructField_new("protocol",
        StructType_new(<<
            StructField_new("minReaderVersion", DataType_INTEGER, FALSE),
            StructField_new("minWriterVersion", DataType_INTEGER, FALSE),
            StructField_new("readerFeatures", ArrayType_new(DataType_STRING, FALSE), TRUE),
            StructField_new("writerFeatures", ArrayType_new(DataType_STRING, FALSE), TRUE) >>),
        FALSE)

PROTOCOL_FIELD ==
    StructField_new("protocol",
        StructType_new(<<
            StructField_new("minReaderVersion", DataType_INTEGER, FALSE),
            StructField_new("minWriterVersion", DataType_INTEGER, FALSE),
            StructField_new("readerFeatures", ArrayType_new(DataType_STRING, FALSE), TRUE),
            StructField_new("writerFeatures", ArrayType_new(DataType_STRING, FALSE), TRUE) >>),
        TRUE)

COMMIT_INFO_FIELD ==
    StructField_new("commitInfo",
        StructType_new(<<
            StructField_new("timestamp", DataType_LONG, FALSE),
            StructField_new("operation", DataType_STRING, FALSE),
            StructField_new("isolationLevel", DataType_STRING, TRUE),
            StructField_new("isBlindAppend", DataType_BOOLEAN, TRUE),
            StructField_new("txnId", DataType_STRING, TRUE),
            StructField_new("readVersion", DataType_LONG, TRUE),
            StructField_new("operationParameters", MapType_new(DataType_STRING, DataType_STRING, TRUE), TRUE),
            StructField_new("operationMetrics", MapType_new(DataType_STRING, DataType_STRING, TRUE), TRUE) >>),
        TRUE)

ADD_FIELD ==
    StructField_new("add",
        StructType_new(<<
            StructField_new("path", DataType_STRING, FALSE),
            partition_values_field,
            StructField_new("size", DataType_LONG, FALSE),
            StructField_new("modificationTime", DataType_LONG, FALSE),
            StructField_new("dataChange", DataType_BOOLEAN, FALSE),
            StructField_new("stats", DataType_STRING, TRUE),
            tags_field,
            deletion_vector_field,
            StructField_new("baseRowId", DataType_LONG, TRUE),
            StructField_new("defaultRowCommitVersion", DataType_LONG, TRUE),
            StructField_new("clusteringProvider", DataType_STRING, TRUE) >>),
        TRUE)

REMOVE_FIELD ==
    StructField_new("remove",
        StructType_new(<<
            StructField_new("path", DataType_STRING, FALSE),
            StructField_new("deletionTimestamp", DataType_LONG, TRUE),
            StructField_new("dataChange", DataType_BOOLEAN, FALSE),
            StructField_new("extendedFileMetadata", DataType_BOOLEAN, TRUE),
            partition_values_field,
            StructField_new("size", DataType_LONG, TRUE),
            StructField_new("stats", DataType_STRING, TRUE),
            tags_field,
            deletion_vector_field,
            StructField_new("baseRowId", DataType_LONG, TRUE),
            StructField_new("defaultRowCommitVersion", DataType_LONG, TRUE) >>),
        TRUE)

REMOVE_FIELD_CHECKPOINT ==
    StructField_new("remove",
        StructType_new(<<
            StructField_new("path", DataType_STRING, FALSE),
            StructField_new("deletionTimestamp", DataType_LONG, TRUE),
            StructField_new("dataChange", DataType_BOOLEAN, FALSE) >>),
        TRUE)

CDC_FIELD ==
    StructField_new("cdc",
        StructType_new(<<
            StructField_new("path", DataType_STRING, FALSE),
            partition_values_field,
            StructField_new("size", DataType_LONG, FALSE),
            StructField_new("dataChange", DataType_BOOLEAN, FALSE),
            tags_field >>),
        TRUE)

TXN_FIELD ==
    StructField_new("txn",
        StructType_new(<<
            StructField_new("appId", DataType_STRING, FALSE),
            StructField_new("version", DataType_LONG, FALSE),
            StructField_new("lastUpdated", DataType_LONG, TRUE) >>),
        TRUE)

DOMAIN_METADATA_FIELD ==
    StructField_new("domainMetadata",
        StructType_new(<<
            StructField_new("domain", DataType_STRING, FALSE),
            StructField_new("configuration", MapType_new(DataType_STRING, DataType_STRING, TRUE), FALSE),
            StructField_new("removed", DataType_BOOLEAN, FALSE) >>),
        TRUE)

CHECKPOINT_METADATA_FIELD ==
    StructField_new("checkpointMetadata",
        StructType_new(<<
            StructField_new("flavor", DataType_STRING, FALSE),
            tags_field >>),
        TRUE)

SIDECAR_FIELD ==
    StructField_new("sidecar",
        StructType_new(<<
            StructField_new("path", DataType_STRING, FALSE),
            StructField_new("sizeInBytes", DataType_LONG, FALSE),
            StructField_new("modificationTime", DataType_LONG, FALSE),
            StructField_new("type", DataType_STRING, FALSE),
            tags_field >>),
        TRUE)

\* The statics LOG_SCHEMA's initializer clones, in its order.
LogSchemaFields ==
    <<"ADD_FIELD", "CDC_FIELD", "COMMIT_INFO_FIELD", "DOMAIN_METADATA_FIELD",
      "METADATA_FIELD", "PROTOCOL_FIELD", "REMOVE_FIELD", "TXN_FIELD">>

\* The statics whose value is a StructField, and what each is built as.
FieldStatics ==
    [ METADATA_FIELD |-> METADATA_FIELD,
      PROTOCOL_FIELD |-> PROTOCOL_FIELD,
      COMMIT_INFO_FIELD |-> COMMIT_INFO_FIELD,
      ADD_FIELD |-> ADD_FIELD,
      REMOVE_FIELD |-> REMOVE_FIELD,
      REMOVE_FIELD_CHECKPOINT |-> REMOVE_FIELD_CHECKPOINT,
      CDC_FIELD |-> CDC_FIELD,
      TXN_FIELD |-> TXN_FIELD,
      DOMAIN_METADATA_FIELD |-> DOMAIN_METADATA_FIELD,
      CHECKPOINT_METADATA_FIELD |-> CHECKPOINT_METADATA_FIELD,
      SIDECAR_FIELD |-> SIDECAR_FIELD ]

StaticNames == DOMAIN FieldStatics \cup {"LOG_SCHEMA"}

\* A lazy_static cell: not yet built, or holding its value.
Unbuilt == [built |-> FALSE, value |-> <<>>]

Built(value) == [built |-> TRUE, value |-> value]

\* The cells after the StructField statics `names` were dereferenced.
WithFields(cells, names) ==
    [n \in StaticNames |->
        IF n \in names /\ ~cells[n].built THEN Built(FieldStatics[n]) ELSE cells[n]]

\* LOG_SCHEMA: StructType::new(vec![ADD_FIELD.clone(), ...]), from the cells.
LOG_SCHEMA(cells) ==
    StructType_new([i \in 1..Len(LogSchemaFields) |-> cells[LogSchemaFields[i]].value])

\* The first dereference of a static runs its initializer, which
\* dereferences the statics it names; later ones find the cell built.
\* log_schema() is deref("LOG_SCHEMA").
deref(name) ==
    /\ statics' =
          IF statics[name].built THEN statics
          ELSE IF name = "LOG_SCHEMA"
          THEN LET cells == WithFields(statics, Range(LogSchemaFields))
               IN  [cells EXCEPT !["LOG_SCHEMA"] = Built(LOG_SCHEMA(cells))]
          ELSE WithFields(statics, {name})
    /\ UNCHANGED nonRgVars

deref_static == \E name \in StaticNames : deref(name)

\* The program starts with no static built.
RgInit == statics = [n \in StaticNames |-> Unbuilt]

\* The registry is not looked at.
RgIdle == statics = [n \in StaticNames |-> Unbuilt]

(***************************************************************************)
(* ffi/src/scan.rs: handles, their owners, and the two iterators.          *)
(***************************************************************************)
\* Most Scan handles, and most file iterators, the host asks for.
MaxIterators == 1

\* Most GlobalScanState handles the host asks for.
MaxGlobalStates == 2

\* Most items (batches, or files) of the source behind an iterator.
MaxItems == 2

\* Most selected files visit_scan_files finds in one batch.
MaxFiles == 1

\* Partition columns and their values.
Keys == {"k1", "k2"}

\* The value a partition column has, when the file has one for it.
ValueOf == [k \in Keys |-> IF k = "k1" THEN "v1" ELSE "v2"]

\* HashMap<String, String>
StringMaps == {[k \in d |-> ValueOf[k]] : d \in SUBSET Keys}

EmptyMap == [k \in {} |-> ""]

\* What DvInfo::get_selection_vector gives: Ok(None), Ok(Some(v)) or Err.
DvInfos == {"None", "Some", "Err"}

\* A source item, DeltaResult<..>: Ok or Err, `id` its place in the source.
Item(ok, i) == [ok |-> ok, id |-> i]

\* The sources an iterator can be built over.
Sources ==
    UNION {{[i \in 1..n |-> Item(oks[i], i)] : oks \in [1..n -> BOOLEAN]} : n \in 0..MaxItems}

\* A boxed object. `drops` counts how often it was destroyed: 0 while it is
\* allocated. The other fields are those of the struct of its kind.
Object(kind) ==
    [kind |-> kind, drops |-> 0,
     items |-> <<>>, pos |-> 0, out |-> <<>>, engine |-> FALSE,    \* iterators
     item |-> 0,                                                  \* EngineDataHandle.data
     dv |-> "",                                                   \* CDvInfo.dv_info
     values |-> EmptyMap]                                         \* CStringMap.values

\* KernelScanDataIterator { data, engine_interface } and
\* KernelScanFileIterator { files, table_client }
Iterator(kind, source) ==
    [Object(kind) EXCEPT !.items = source, !.engine = TRUE]

EngineDataHandle(item) == [Object("EngineDataHandle") EXCEPT !.item = item.id]

CDvInfo(dv_info) == [Object("CDvInfo") EXCEPT !.dv = dv_info]

CStringMap(values) == [Object("CStringMap") EXCEPT !.values = values]

\* BoxHandle::into_handle / Box::into_raw / Box::leak of a new box: the
\* handle is the object's place in the heap.
into_handle(hp, obj) == Append(hp, obj)

NewHandle == Len(heap) + 1

\* A drop that releases nothing.
drop_handle_Leak(hp, h) == hp

\* BoxHandle::drop_handle, drop(Box::from_raw(..)), and a Box::from_raw whose
\* box goes out of scope: the memory is released, its contents with it.
drop_handle(hp, h) ==
    [hp EXCEPT ![h] = [Object(hp[h].kind) EXCEPT !.drops = hp[h].drops + 1]]

\* asbox!: Box::from_raw, the body, Box::leak. The leak is not reached when
\* the body panics and unwinds: the box is then dropped.
asbox(hp, h, unwinds) == IF unwinds THEN drop_handle(hp, h) ELSE hp

\* A handle a caller may pass: allocated, and of the type the call takes.
Valid(h, kind) == h \in DOMAIN heap /\ heap[h].kind = kind /\ heap[h].drops = 0

Handles(kind) == {h \in DOMAIN heap : heap[h].kind = kind}

\* A copy of the host's pointer in place of a counted reference.
clone_as_arc_Borrowed(strong) == strong

\* ArcHandle::clone_as_arc, and the drop of an Arc.
clone_as_arc(strong) == strong + 1

Arc_drop(strong) == strong - 1

\* Iterator::next that hands the source's items out last to first.
Iterator_next_Reversed(items, pos) ==
    IF pos < Len(items)
    THEN [some |-> TRUE, item |-> items[Len(items) - pos], pos |-> pos + 1]
    ELSE [some |-> FALSE, item |-> Item(FALSE, 0), pos |-> pos]

\* Iterator::next over the boxed source.
Iterator_next(items, pos) ==
    IF pos < Len(items)
    THEN [some |-> TRUE, item |-> items[pos + 1], pos |-> pos + 1]
    ELSE [some |-> FALSE, item |-> Item(FALSE, 0), pos |-> pos]

\* A transpose that hands an error item on as if it were a successful one.
transpose_ErrDelivered(nx) ==
    IF nx.some THEN "Some" ELSE "None"

\* A transpose that takes the end of the source for one more item.
transpose_NoStop(nx) ==
    IF nx.some /\ ~nx.item.ok THEN "Err" ELSE "Some"

\* `.transpose()?` and the `if let Some(..)`: which way next goes.
transpose(nx) ==
    IF ~nx.some THEN "None" ELSE IF nx.item.ok THEN "Some" ELSE "Err"

\* The engine's allocate_fn: its own copy of the slice. NULL is <<>>.
allocate_fn(slice) == <<"engine", slice>>

NULL == <<>>

\* A lookup that finds the first partition column whatever the key is.
HashMap_get_AnyKey(values, key) ==
    IF "k1" \in DOMAIN values THEN <<values["k1"]>>
    ELSE IF key \in DOMAIN values THEN <<values[key]>> ELSE <<>>

\* HashMap::get
HashMap_get(values, key) ==
    IF key \in DOMAIN values THEN <<values[key]>> ELSE <<>>

\* What a boundary call returned. `invoked` is how many times the call ran
\* the caller's callback, `allocs` what it handed to allocate_fn.
\* `handle` is the handle the call was made on (or the one it returns),
\* `arg` its string argument.
Ret(fn, value, handle, arg, invoked, allocs, ptr) ==
    [fn |-> fn, value |-> value, handle |-> handle, arg |-> arg,
     invoked |-> invoked, allocs |-> allocs, ptr |-> ptr]

\* A call that returns a value and runs no callback.
Plain(fn, value, handle) == Ret(fn, value, handle, "", 0, <<>>, NULL)

NoRet == Plain("", "", 0)

\* The locals of the calls in progress.
NoCall == [it |-> 0, out0 |-> 0, batch |-> 0, visited |-> FALSE,
           todo |-> 0, fails |-> FALSE, dv |-> 0, map |-> 0, selected |-> FALSE]

\* A panic that reaches an extern "C" function: the process aborts, or the
\* panic unwinds into the caller.
PanicOutcomes == {"aborted", "unwound"}

(***************************************************************************)
(* The boundary calls the host makes between iterations.                   *)
(***************************************************************************)
\* scan / scan_impl (the predicate visitor is left out). The host lists the
\* files, if it does, before it scans.
scan ==
    /\ ffi_pc = "host"
    /\ host_refs > 0
    /\ \A h \in Handles("KernelScanFileIterator") : heap[h].drops > 0
    /\ Cardinality(Handles("Scan")) < MaxIterators
    /\ heap' = into_handle(heap, Object("Scan"))
    /\ ffi_ret' = Plain("scan", "Ok", NewHandle)
    /\ UNCHANGED <<arc_strong, host_refs, ffi_pc, cur, nonFfVars>>

get_global_scan_state ==
    /\ ffi_pc = "host"
    /\ Cardinality(Handles("GlobalScanState")) < MaxGlobalStates
    /\ \E h \in DOMAIN heap :
          /\ Valid(h, "Scan")
          /\ heap' = into_handle(asbox(heap, h, FALSE), Object("GlobalScanState"))
          /\ ffi_ret' = Plain("get_global_scan_state", "Ok", NewHandle)
    /\ UNCHANGED <<arc_strong, host_refs, ffi_pc, cur, nonFfVars>>

drop_global_scan_state ==
    /\ ffi_pc = "host"
    /\ \E h \in DOMAIN heap :
          /\ Valid(h, "GlobalScanState")
          /\ heap' = drop_handle(heap, h)
          /\ ffi_ret' = Plain("drop_global_scan_state", "void", h)
    /\ UNCHANGED <<arc_strong, host_refs, ffi_pc, cur, nonFfVars>>

\* kernel_scan_data_init / kernel_scan_data_init_impl: scan.scan_data(..)
\* gives the source or an error; the boxed Scan goes out of scope either way.
kernel_scan_data_init ==
    /\ ffi_pc = "host"
    /\ host_refs > 0
    /\ \E h \in DOMAIN heap :
          /\ Valid(h, "Scan")
          /\ LET strong == clone_as_arc(arc_strong)
                 hp == drop_handle(heap, h)
             IN  \/ /\ heap' = hp
                    /\ arc_strong' = Arc_drop(strong)
                    /\ ffi_ret' = Plain("kernel_scan_data_init", "Err", h)
                 \/ \E source \in Sources :
                       /\ heap' = into_handle(hp, Iterator("KernelScanDataIterator", source))
                       /\ arc_strong' = strong
                       /\ ffi_ret' = Plain("kernel_scan_data_init", "Ok", h)
    /\ UNCHANGED <<host_refs, ffi_pc, cur, nonFfVars>>

kernel_scan_data_free ==
    /\ ffi_pc = "host"
    /\ \E it \in DOMAIN heap :
          /\ Valid(it, "KernelScanDataIterator")
          /\ heap' = drop_handle(heap, it)
          /\ arc_strong' = IF heap[it].engine THEN Arc_drop(arc_strong) ELSE arc_strong
          /\ ffi_ret' = Plain("kernel_scan_data_free", "void", it)
    /\ UNCHANGED <<host_refs, ffi_pc, cur, nonFfVars>>

\* kernel_scan_files_init / kernel_scan_files_init_impl
kernel_scan_files_init ==
    /\ ffi_pc = "host"
    /\ host_refs > 0
    /\ Cardinality(Handles("KernelScanFileIterator")) < MaxIterators
    /\ Handles("Scan") = {}
    /\ LET strong == clone_as_arc(arc_strong)
       IN  \/ /\ heap' = heap
              /\ arc_strong' = Arc_drop(strong)
              /\ ffi_ret' = Plain("kernel_scan_files_init", "Err", 0)
           \/ \E source \in Sources :
                 /\ heap' = into_handle(heap, Iterator("KernelScanFileIterator", source))
                 /\ arc_strong' = strong
                 /\ ffi_ret' = Plain("kernel_scan_files_init", "Ok", NewHandle)
    /\ UNCHANGED <<host_refs, ffi_pc, cur, nonFfVars>>

\* kernel_scan_files_next / kernel_scan_files_next_impl: the visitor gets a
\* string slice only, and has returned when the call returns.
kernel_scan_files_next ==
    /\ ffi_pc = "host"
    /\ \E it \in DOMAIN heap :
          /\ Valid(it, "KernelScanFileIterator")
          /\ LET nx == Iterator_next(heap[it].items, heap[it].pos)
                 way == transpose(nx)
             IN  \/ /\ way = "Some"
                    /\ heap' = [heap EXCEPT ![it].pos = nx.pos,
                                            ![it].out = Append(@, nx.item.id)]
                    /\ ffi_ret' = Ret("kernel_scan_files_next", "true", it, "", 1, <<>>, NULL)
                 \/ /\ way = "Err"
                    /\ heap' = [heap EXCEPT ![it].pos = nx.pos]
                    /\ ffi_ret' = Plain("kernel_scan_files_next", "Err", it)
                 \/ /\ way = "None"
                    /\ heap' = heap
                    /\ ffi_ret' = Plain("kernel_scan_files_next", "false", it)
    /\ UNCHANGED <<arc_strong, host_refs, ffi_pc, cur, nonFfVars>>

kernel_scan_files_free ==
    /\ ffi_pc = "host"
    /\ \E it \in DOMAIN heap :
          /\ Valid(it, "KernelScanFileIterator")
          /\ heap' = drop_handle(heap, it)
          /\ arc_strong' = IF heap[it].engine THEN Arc_drop(arc_strong) ELSE arc_strong
          /\ ffi_ret' = Plain("kernel_scan_files_free", "void", it)
    /\ UNCHANGED <<host_refs, ffi_pc, cur, nonFfVars>>

\* The host lets go of one of its own references to the engine interface.
release_engine_interface ==
    /\ ffi_pc = "host"
    /\ host_refs > 0
    /\ host_refs' = host_refs - 1
    /\ arc_strong' = Arc_drop(arc_strong)
    /\ UNCHANGED <<heap, ffi_pc, cur, ffi_ret, nonFfVars>>

(***************************************************************************)
(* kernel_scan_data_next and what the host's callbacks do meanwhile.       *)
(***************************************************************************)
\* A panic in `fn`, reached through an extern "C" function.
panic(fn, po) ==
    /\ ffi_pc' = po
    /\ ffi_ret' = Plain(fn, "panic", 0)
    /\ UNCHANGED <<arc_strong, host_refs, cur, nonFfVars>>

\* kernel_scan_data_next / kernel_scan_data_next_impl, up to the call of
\* engine_visitor (or to its return, when there is nothing to visit).
kernel_scan_data_next ==
    /\ ffi_pc = "host"
    /\ \E it \in DOMAIN heap :
          /\ Valid(it, "KernelScanDataIterator")
          /\ LET nx == Iterator_next(heap[it].items, heap[it].pos)
                 way == transpose(nx)
             IN  \/ /\ way = "Some"
                    /\ heap' = into_handle([heap EXCEPT ![it].pos = nx.pos,
                                                        ![it].out = Append(@, nx.item.id)],
                                           EngineDataHandle(nx.item))
                    /\ cur' = [NoCall EXCEPT !.it = it, !.out0 = Len(heap[it].out),
                                             !.batch = NewHandle]
                    /\ ffi_pc' = "visitor"
                    /\ UNCHANGED ffi_ret
                 \/ /\ way = "Err"
                    /\ heap' = [heap EXCEPT ![it].pos = nx.pos]
                    /\ ffi_ret' = Plain("kernel_scan_data_next", "Err", it)
                    /\ UNCHANGED <<ffi_pc, cur>>
                 \/ /\ way = "None"
                    /\ heap' = heap
                    /\ ffi_ret' = Plain("kernel_scan_data_next", "false", it)
                    /\ UNCHANGED <<ffi_pc, cur>>
    /\ UNCHANGED <<arc_strong, host_refs, nonFfVars>>

\* engine_visitor has returned: drop_handle(data_handle), Ok(true).
kernel_scan_data_next_return ==
    /\ ffi_pc = "visitor"
    /\ heap' = drop_handle(heap, cur.batch)
    /\ ffi_ret' = Ret("kernel_scan_data_next", "true", cur.it, "",
                      Len(heap[cur.it].out) - cur.out0, <<>>, NULL)
    /\ ffi_pc' = "host"
    /\ cur' = NoCall
    /\ UNCHANGED <<arc_strong, host_refs, nonFfVars>>

\* The visitor unwraps the batch it was given.
get_raw_engine_data ==
    /\ ffi_pc = "visitor"
    /\ Valid(cur.batch, "EngineDataHandle")
    /\ heap' = drop_handle(heap, cur.batch)
    /\ ffi_ret' = Plain("get_raw_engine_data", "raw", cur.batch)
    /\ UNCHANGED <<arc_strong, host_refs, ffi_pc, cur, nonFfVars>>

\* get_raw_arrow_data / get_raw_arrow_data_impl: the downcast or the schema
\* conversion may fail; the box is gone either way.
get_raw_arrow_data ==
    /\ ffi_pc = "visitor"
    /\ host_refs > 0
    /\ Valid(cur.batch, "EngineDataHandle")
    /\ heap' = drop_handle(heap, cur.batch)
    /\ \E res \in {"Ok", "Err"} : ffi_ret' = Plain("get_raw_arrow_data", res, cur.batch)
    /\ UNCHANGED <<arc_strong, host_refs, ffi_pc, cur, nonFfVars>>

\* visit_scan_data, up to visit_scan_files: it finds `todo` selected files
\* in the batch and calls rust_callback for each; it may end in an error.
visit_scan_data ==
    /\ ffi_pc = "visitor"
    /\ Valid(cur.batch, "EngineDataHandle")
    /\ ~cur.visited
    /\ \E n \in 0..MaxFiles, fails \in BOOLEAN :
          cur' = [cur EXCEPT !.visited = TRUE, !.todo = n, !.fails = fails]
    /\ ffi_pc' = "visit_scan_data"
    /\ UNCHANGED <<heap, arc_strong, host_refs, ffi_ret, nonFfVars>>

\* visit_scan_files(..).unwrap() and the end of visit_scan_data.
visit_scan_data_return ==
    /\ ffi_pc = "visit_scan_data"
    /\ cur.todo = 0
    /\ \/ /\ cur.fails
          /\ \E po \in PanicOutcomes : panic("visit_scan_data", po)
          /\ UNCHANGED heap
       \/ /\ ~cur.fails
          /\ ffi_pc' = "visitor"
          /\ ffi_ret' = Plain("visit_scan_data", "void", cur.batch)
          /\ UNCHANGED <<heap, arc_strong, host_refs, cur, nonFfVars>>

\* rust_callback, up to the call of context.callback.
rust_callback ==
    /\ ffi_pc = "visit_scan_data"
    /\ cur.todo > 0
    /\ \E dv_info \in DvInfos, partition_values \in StringMaps :
          heap' = into_handle(into_handle(heap, CDvInfo(dv_info)),
                              CStringMap(partition_values))
    /\ cur' = [cur EXCEPT !.dv = NewHandle, !.map = NewHandle + 1, !.selected = FALSE]
    /\ ffi_pc' = "file_callback"
    /\ UNCHANGED <<arc_strong, host_refs, ffi_ret, nonFfVars>>

\* context.callback has returned: drop_handle(dv_handle).
rust_callback_return ==
    /\ ffi_pc = "file_callback"
    /\ heap' = drop_handle(heap, cur.dv)
    /\ cur' = [cur EXCEPT !.todo = @ - 1]
    /\ ffi_pc' = "visit_scan_data"
    /\ UNCHANGED <<arc_strong, host_refs, ffi_ret, nonFfVars>>

\* The per-file callback probes the partition values.
get_from_map ==
    /\ ffi_pc = "file_callback"
    /\ Valid(cur.map, "CStringMap")
    /\ \E key \in Keys :
          LET got == HashMap_get(heap[cur.map].values, key)
          IN  ffi_ret' = IF got # <<>>
                         THEN Ret("get_from_map", "ptr", cur.map, key, 0,
                                  <<got[1]>>, allocate_fn(got[1]))
                         ELSE Ret("get_from_map", "NULL", cur.map, key, 0, <<>>, NULL)
    /\ heap' = asbox(heap, cur.map, FALSE)
    /\ UNCHANGED <<arc_strong, host_refs, ffi_pc, cur, nonFfVars>>

\* A match that allocates a vector when there is no deletion vector too.
match_vopt_AllTrue(vopt) == "slice"

\* The `match vopt` of selection_vector_from_dv.
match_vopt(vopt) == IF vopt = "Some" THEN "slice" ELSE "NULL"

\* The per-file callback asks for the file's selection vector.
\* get_selection_vector(..).unwrap() panics on an error.
selection_vector_from_dv ==
    /\ ffi_pc = "file_callback"
    /\ host_refs > 0
    /\ Valid(cur.dv, "CDvInfo")
    /\ ~cur.selected
    /\ \E state \in DOMAIN heap :
          /\ Valid(state, "GlobalScanState")
          /\ LET vopt == heap[cur.dv].dv
             IN  \/ /\ vopt = "Err"
                    /\ \E po \in PanicOutcomes :
                          /\ panic("selection_vector_from_dv", po)
                          /\ heap' = asbox(asbox(heap, state, po = "unwound"),
                                           cur.dv, po = "unwound")
                 \/ /\ vopt # "Err"
                    /\ heap' = IF match_vopt(vopt) = "slice"
                               THEN into_handle(asbox(asbox(heap, state, FALSE), cur.dv, FALSE),
                                                Object("KernelBoolSlice"))
                               ELSE asbox(asbox(heap, state, FALSE), cur.dv, FALSE)
                    /\ ffi_ret' = Plain("selection_vector_from_dv", match_vopt(vopt),
                                        IF match_vopt(vopt) = "slice" THEN NewHandle ELSE 0)
                    /\ cur' = [cur EXCEPT !.selected = TRUE]
                    /\ UNCHANGED <<arc_strong, host_refs, ffi_pc, nonFfVars>>

\* The host holds one reference to the engine interface and no handle.
FfInit ==
    /\ heap = <<>>
    /\ arc_strong = 1
    /\ host_refs = 1
    /\ ffi_pc = "host"
    /\ cur = NoCall
    /\ ffi_ret = NoRet

\* The boundary is not used.
FfIdle ==
    /\ heap = <<>>
    /\ arc_strong = 0
    /\ host_refs = 0
    /\ ffi_pc = "idle"
    /\ cur = NoCall
    /\ ffi_ret = NoRet

(***************************************************************************)
(* simple_client/data.rs: impl EngineMap for MapArray.                     *)
(***************************************************************************)
\* Most rows of a MapArray.
MaxMapRows == 2

\* Most entries of a MapArray, over all its rows.
MaxEntries == 2

\* A slot of a StringArray: valid with its string, or null, over whatever
\* string the value buffers hold at the slot.
StringSlot(valid, str) == [valid |-> valid, str |-> str]

KeySlots == {StringSlot(TRUE, k) : k \in Keys} \cup {StringSlot(FALSE, "")}

ValueSlots ==
    {StringSlot(TRUE, v) : v \in {"v1", "v2"}} \cup {StringSlot(FALSE, r) : r \in {"", "v1"}}

\* The offsets of a MapArray of n entries: row r holds the entries
\* offsets[r] .. offsets[r + 1] - 1 (rows and entries counted from 0).
Offsets(n) ==
    { o \in UNION { [1..(r + 1) -> 0..n] : r \in 1..MaxMapRows } :
        /\ o[1] = 0
        /\ o[Len(o)] = n
        /\ \A i \in 1..(Len(o) - 1) : o[i] <= o[i + 1] }

MapArrays ==
    UNION { { [offsets |-> o, keys |-> k, values |-> v] :
                o \in Offsets(n), k \in [1..n -> KeySlots], v \in [1..n -> ValueSlots] } :
            n \in 0..MaxEntries }

\* Option<&str>, Option<String>
Option_Some(v) == [some |-> TRUE, v |-> v]

Option_None == [some |-> FALSE, v |-> ""]

\* StringArray::value(idx): the string at the slot, whether or not the slot
\* is null.
value(array, idx) == array[idx + 1].str

\* An item of StringArray::iter()
iter_item(slot) == IF slot.valid THEN Option_Some(slot.str) ELSE Option_None

\* EngineMap::get
get(array, row_index, key) ==
    LET start_offset == array.offsets[row_index + 1]
        count == array.offsets[row_index + 2] - start_offset
        found == { idx \in start_offset..(start_offset + count - 1) :
                     /\ iter_item(array.keys[idx + 1]).some
                     /\ key = iter_item(array.keys[idx + 1]).v }
    IN  IF found = {} THEN Option_None
        ELSE Option_Some(value(array.values, CHOOSE idx \in found : \A j \in found : idx <= j))

\* HashMap::insert
insert(ret, key, val) ==
    [k \in DOMAIN ret \cup {key} |-> IF k = key THEN val ELSE ret[k]]

RECURSIVE materialize_loop(_, _, _)
\* for (key, value) in keys.iter().zip(values.iter())
materialize_loop(keys, values, ret) ==
    IF keys = <<>> \/ values = <<>> THEN ret
    ELSE materialize_loop(Tail(keys), Tail(values),
            IF iter_item(Head(keys)).some
            THEN insert(ret, iter_item(Head(keys)).v, iter_item(Head(values)))
            ELSE ret)

\* EngineMap::materialize
materialize(array, row_index) ==
    LET first == array.offsets[row_index + 1]
        last == array.offsets[row_index + 2]
    IN  materialize_loop(SubSeq(array.keys, first + 1, last),
                         SubSeq(array.values, first + 1, last),
                         [k \in {} |-> Option_None])

NoMapCall == [fn |-> "", row |-> 0, key |-> "", ret |-> Option_None]

\* The rows of a MapArray.
Rows(array) == 0..(Len(array.offsets) - 2)

call_get ==
    /\ \E row_index \in Rows(map_array), key \in Keys :
          map_ret' = [fn |-> "get", row |-> row_index, key |-> key,
                      ret |-> get(map_array, row_index, key)]
    /\ UNCHANGED <<map_array, nonMpVars>>

call_materialize ==
    /\ \E row_index \in Rows(map_array) :
          map_ret' = [fn |-> "materialize", row |-> row_index, key |-> "",
                      ret |-> materialize(map_array, row_index)]
    /\ UNCHANGED <<map_array, nonMpVars>>

MpInit == map_array \in MapArrays /\ map_ret = NoMapCall

\* No map is looked at.
MpIdle ==
    /\ map_array = [offsets |-> <<0>>, keys |-> <<>>, values |-> <<>>]
    /\ map_ret = NoMapCall

(***************************************************************************)
(* simple_client/parquet.rs: read_parquet_files.                           *)
(***************************************************************************)
\* Most files handed to read_parquet_files.
MaxParquetFiles == 3

\* What is at a location: a parquet file with a first batch, nothing, a
\* location that is not a local path, a file that is not parquet, a parquet
\* file without batches, one whose first batch does not decode.
FileKinds == {"ok", "missing", "not_local", "not_parquet", "no_batches", "bad_batch"}

\* An item of the returned iterator: Ok(Box<SimpleData>) with the first
\* batch of the file at `location`, or Err.
ReadOk(location) == [ok |-> TRUE, location |-> location, err |-> ""]

ReadErr(location, err) == [ok |-> FALSE, location |-> location, err |-> err]

\* SimpleData::try_create_from_parquet(schema, location)
try_create_from_parquet(location, file) ==
    CASE file = "not_local"   -> ReadErr(location, "can only read local files")
      [] file = "missing"     -> ReadErr(location, "io")
      [] file = "not_parquet" -> ReadErr(location, "parquet")
      [] file = "no_batches"  -> ReadErr(location, "No data found reading parquet file")
      [] file = "bad_batch"   -> ReadErr(location, "arrow")
      [] file = "ok"          -> ReadOk(location)

\* Whether try_create_from_parquet gets as far as File::open.
Opens(file) == file # "not_local"

\* Map::next that ends the iteration at the first Err.
map_next_Fused(locs, fs) ==
    LET d == try_create_from_parquet(Head(locs), fs[Head(locs)])
    IN  [item |-> d, rest |-> IF d.ok THEN Tail(locs) ELSE <<>>]

\* locations.into_iter().map(closure).next(), with locations left: the
\* closure's result for the next location, and the locations after it.
map_next(locs, fs) ==
    [item |-> try_create_from_parquet(Head(locs), fs[Head(locs)]), rest |-> Tail(locs)]

\* read_parquet_files(files, schema, predicate): always Ok(iterator).
read_parquet_files ==
    /\ pq_pc = "call"
    /\ locations' = IF files = <<>> THEN <<>> ELSE [i \in 1..Len(files) |-> i]
    /\ pq_pc' = "iterating"
    /\ UNCHANGED <<files, read_results, opened, nonPqVars>>

\* The caller asks the iterator for its next item.
iterator_next ==
    /\ pq_pc = "iterating"
    /\ IF locations = <<>>
       THEN /\ pq_pc' = "done"
            /\ UNCHANGED <<locations, read_results, opened>>
       ELSE LET n == map_next(locations, files)
            IN  /\ read_results' = Append(read_results, n.item)
                /\ locations' = n.rest
                /\ opened' = IF Opens(files[Head(locations)])
                             THEN Append(opened, Head(locations)) ELSE opened
                /\ UNCHANGED pq_pc
    /\ UNCHANGED <<files, nonPqVars>>

\* The caller drops the iterator before its end.
iterator_drop ==
    /\ pq_pc = "iterating"
    /\ locations # <<>>
    /\ locations' = <<>>
    /\ pq_pc' = "dropped"
    /\ UNCHANGED <<files, read_results, opened, nonPqVars>>

PqInit ==
    /\ files \in UNION { [1..n -> FileKinds] : n \in 0..MaxParquetFiles }
    /\ locations = <<>>
    /\ read_results = <<>>
    /\ opened = <<>>
    /\ pq_pc = "call"

\* No parquet file is read.
PqIdle ==
    /\ files = <<>> /\ locations = <<>> /\ read_results = <<>> /\ opened = <<>>
    /\ pq_pc = "idle"

(***************************************************************************)
(* Specifications.                                                         *)
(***************************************************************************)
\* The extraction engine.
Init == ExInit /\ McIdle /\ RgIdle /\ FfIdle /\ MpIdle /\ PqIdle

Next == extract \/ extract_columns_from_array \/ return_ok \/ visit

Spec == Init /\ [][Next]_vars

\* Extraction of the log schema, or of a projection of it, from log batches.
\* The statics as log_schema() leaves them.
LogCells ==
    LET cells == WithFields([n \in StaticNames |-> Unbuilt], Range(LogSchemaFields))
    IN  [cells EXCEPT !["LOG_SCHEMA"] = Built(LOG_SCHEMA(cells))]

RECURSIVE SubSeqs(_)
\* The sequences that keep some of the elements of `seq`, in its order.
SubSeqs(seq) ==
    IF seq = <<>> THEN {<<>>}
    ELSE LET rest == SubSeqs(Tail(seq))
         IN  rest \cup { <<Head(seq)>> \o r : r \in rest }

\* The schemas asked of a log batch: the log schema and its projections to
\* some of the action fields.
LogProjections == SubSeqs(LogCells["LOG_SCHEMA"].value.fields)

RECURSIVE FullColumns(_)
\* The columns a reader given `fields` produces: one per field, of the
\* field's native type, with null rows where the field is nullable.
FullColumns(fields) ==
    [i \in 1..Len(fields) |->
        Column(fields[i].name, TryIntoArrow(fields[i].data_type).type,
               fields[i].nullable, FullColumns(fields[i].fields))]

\* An action column written by something else: its first child missing, or
\* not a struct at all.
BadColumns(c) ==
    { [c EXCEPT !.cols = Tail(@)], [c EXCEPT !.type = "Utf8", !.cols = <<>>] }

\* The batches a projection is extracted from: the columns of any of its
\* actions; and, for the whole log schema, such a batch with one of its
\* columns a bad one.
LogBatches(s) ==
    SubSeqs(FullColumns(s)) \cup
    IF Len(s) = Len(LogSchemaFields)
    THEN UNION { UNION { { [d EXCEPT ![i] = b] : b \in BadColumns(d[i]) } :
                           i \in 1..Len(d) } :
                   d \in SubSeqs(FullColumns(s)) }
    ELSE {}

LogInit ==
    /\ statics = LogCells
    /\ schema \in LogProjections
    /\ data \in LogBatches(schema)
    /\ stack = <<>>
    /\ out_col_array = <<>>
    /\ result = Pending
    /\ visits = <<>>
    /\ pc = "start"
    /\ num_rows = 1
    /\ row_counts = <<>>
    /\ McIdle /\ FfIdle /\ MpIdle /\ PqIdle

LogSpec == LogInit /\ [][Next]_vars

\* The derive macros.
MacroInit == McInit /\ ExIdle /\ RgIdle /\ FfIdle /\ MpIdle /\ PqIdle

MacroNext == call_get_schema_name \/ call_derive_schema

MacroSpec == MacroInit /\ [][MacroNext]_vars

\* The schema registry.
RegistryInit == RgInit /\ ExIdle /\ McIdle /\ FfIdle /\ MpIdle /\ PqIdle

RegistryNext == deref_static

RegistrySpec == RegistryInit /\ [][RegistryNext]_vars

\* The scan boundary.
FfiInit == FfInit /\ ExIdle /\ McIdle /\ RgIdle /\ MpIdle /\ PqIdle

FfiNext ==
    \/ scan
    \/ get_global_scan_state
    \/ drop_global_scan_state
    \/ kernel_scan_data_init
    \/ kernel_scan_data_next
    \/ kernel_scan_data_next_return
    \/ kernel_scan_data_free
    \/ get_raw_engine_data
    \/ get_raw_arrow_data
    \/ visit_scan_data
    \/ visit_scan_data_return
    \/ rust_callback
    \/ rust_callback_return
    \/ get_from_map
    \/ selection_vector_from_dv
    \/ kernel_scan_files_init
    \/ kernel_scan_files_next
    \/ kernel_scan_files_free
    \/ release_engine_interface

FfiSpec == FfiInit /\ [][FfiNext]_vars

\* The map accessors.
MapInit == MpInit /\ ExIdle /\ McIdle /\ RgIdle /\ FfIdle /\ PqIdle

MapNext == call_get \/ call_materialize

MapSpec == MapInit /\ [][MapNext]_vars

\* The parquet handler.
ParquetInit == PqInit /\ ExIdle /\ McIdle /\ RgIdle /\ FfIdle /\ MpIdle

ParquetNext == read_parquet_files \/ iterator_next \/ iterator_drop

ParquetSpec == ParquetInit /\ [][ParquetNext]_vars

(***************************************************************************)
(* Properties of extraction.                                               *)
(***************************************************************************)
\* The loop of the innermost call is about to handle CurField.
AtField == pc = "columns" /\ stack # <<>> /\ Top.idx <= Len(Top.fields)

\* The positions of the columns named `name`.
Named(cols, name) == {i \in 1..Len(cols) : cols[i].name = name}

\* The column named `name` (the generated containers hold at most one).
TheCol(cols, name) == cols[CHOOSE i \in Named(cols, name) : TRUE]

\* The non-struct leaf fields of a field list, nested ones included.
RECURSIVE NumLeaves(_)
NumLeaves(fields) ==
    IF fields = <<>> THEN 0
    ELSE (IF Head(fields).data_type = "Struct"
          THEN NumLeaves(Head(fields).fields) ELSE 1) + NumLeaves(Tail(fields))

\* The extraction failed with `err`: extract has returned it, and the
\* visitor was not and will not be invoked.
FailedWith(err) == result' = err /\ pc' = "done" /\ visits' = <<>>

\* C1: when the loop of extract_columns_from_array, at any depth, handles a
\* non-nullable field that has no column in a present container, extract
\* returns Error::MissingData for that field and hands no accessor list to
\* the visitor.
C1_Step ==
    (AtField /\ Top.array.present /\ ~CurField.nullable
        /\ Named(Top.array.cols, CurField.name) = {})
    => (FailedWith(MissingData(CurField.name)) /\ out_col_array' = out_col_array)

C1_MissingRequired == [][C1_Step]_vars

\* C1's case two struct columns deep: a.a.a is required and has no column.
C1_Witness ==
    /\ pc = "done"
    /\ result = MissingData("a")
    /\ Len(schema) = 1 /\ schema[1].data_type = "Struct"
    /\ Len(schema[1].fields) = 1 /\ schema[1].fields[1].data_type = "Struct"
    /\ Len(schema[1].fields[1].fields) = 1
    /\ ~schema[1].fields[1].fields[1].nullable
    /\ Len(data) = 1 /\ data[1].type = "Struct"
    /\ Len(data[1].cols) = 1 /\ data[1].cols[1].type = "Struct"
    /\ data[1].cols[1].cols = <<>>

\* The rows of extract_column's table, as the specification lists them.
C6_Pushes ==
    { <<"Boolean", "Boolean">>, <<"Utf8", "String">>, <<"Int32", "Integer">>,
      <<"Int64", "Long">>, <<"List", "Array">>, <<"Map", "Map">> }

C6_Table == C6_Pushes \cup { <<"Struct", "Struct">> }

\* Some non-nullable field inside a present container (the batch, or a
\* Struct column entered for a Struct field) is null: it has no column or a
\* null-typed one or, with `rows`, a typed column with a null row.
RECURSIVE SomeRequiredNull(_, _, _)
SomeRequiredNull(fields, cols, rows) ==
    \E k \in 1..Len(fields) :
        LET f == fields[k]
            hits == Named(cols, f.name)
            c == TheCol(cols, f.name)
        IN  \/ /\ ~f.nullable
               /\ (hits = {} \/ c.type = "Null" \/ (rows /\ c.nulls))
            \/ /\ f.data_type = "Struct" /\ hits # {} /\ c.type = "Struct"
               /\ SomeRequiredNull(f.fields, c.cols, rows)

\* Some field inside a present container has a column, not null-typed, that
\* is no row of the table for the field's declared type.
RECURSIVE SomeMismatch(_, _)
SomeMismatch(fields, cols) ==
    \E k \in 1..Len(fields) :
        LET f == fields[k]
            hits == Named(cols, f.name)
            c == TheCol(cols, f.name)
        IN  /\ hits # {}
            /\ c.type # "Null"
            /\ \/ <<c.type, f.data_type>> \notin C6_Table
               \/ f.data_type = "Struct" /\ SomeMismatch(f.fields, c.cols)

\* C2 as stated: whenever a required field inside a present container
\* holds a null for some row, extract returns MissingData and the visitor
\* is not invoked.
C2_Original ==
    (pc = "done" /\ SomeRequiredNull(schema, data, TRUE))
    => (result.kind = "MissingData" /\ visits = <<>>)

\* C2 amended: when a required field inside a present container has no
\* column or a null-typed column, extract fails without invoking the
\* visitor, with MissingData unless a column of the wrong type is met (then
\* the error may be UnexpectedColumnType); extract itself returns
\* MissingData in no other case; and null rows of a typed column are not
\* looked at: with no such field and no column of a wrong type the visitor
\* is invoked, once.
C2_RequiredAllNull ==
    pc = "done" =>
        /\ SomeRequiredNull(schema, data, FALSE) =>
              /\ visits = <<>>
              /\ result.kind \in {"MissingData", "UnexpectedColumnType"}
              /\ ~SomeMismatch(schema, data) => result.kind = "MissingData"
        /\ (result.kind = "MissingData" /\ visits = <<>>) =>
              SomeRequiredNull(schema, data, FALSE)
        /\ (~SomeRequiredNull(schema, data, FALSE) /\ ~SomeMismatch(schema, data)) =>
              Len(visits) = 1

\* A required String field whose column is null-typed.
C2_Witness ==
    /\ pc = "done"
    /\ result = MissingData("a")
    /\ Len(schema) = 1 /\ schema[1].data_type = "String" /\ ~schema[1].nullable
    /\ Len(data) = 1 /\ data[1].type = "Null"

\* The call for the inner struct of CurField has just begun, under `array`.
Entered(array) ==
    /\ stack' = Append(Advance, Frame(CurField.fields, array))
    /\ out_col_array' = out_col_array
    /\ pc' = "columns" /\ result' = Pending /\ visits' = visits

\* The loop pushed `accessor` for CurField and moved on.
Pushed(accessor) ==
    /\ out_col_array' = Append(out_col_array, accessor)
    /\ stack' = Advance
    /\ pc' = "columns" /\ result' = Pending /\ visits' = visits

\* The accessors from position `from` on are all the null placeholder.
UnitsFrom(from, n) ==
    /\ Len(out_col_array) >= from + n - 1
    /\ \A i \in from..(from + n - 1) : out_col_array[i] = UnitAccessor

\* C3: a field with no column that is nullable, or whose container is
\* absent, never fails: a struct is entered with an absent container, a
\* non-struct field pushes one null placeholder; so nothing fails inside an
\* absent container, and on success every leaf beneath a top-level nullable
\* struct without a column holds the null placeholder.
C3_Step ==
    (AtField /\ Named(Top.array.cols, CurField.name) = {}
        /\ (CurField.nullable \/ ~Top.array.present))
    => IF CurField.data_type = "Struct" THEN Entered(None) ELSE Pushed(UnitAccessor)

C3_Leaves ==
    pc = "visit" =>
        \A k \in 1..Len(schema) :
            (schema[k].data_type = "Struct" /\ schema[k].nullable
                /\ Named(data, schema[k].name) = {})
            => UnitsFrom(NumLeaves(SubSeq(schema, 1, k - 1)) + 1,
                         NumLeaves(schema[k].fields))

C3_NullableOrAbsent == [][C3_Step]_vars /\ []C3_Leaves

\* A nullable struct without a column, a struct inside it, and a required
\* leaf inside that: one null placeholder.
C3_Witness ==
    /\ pc = "visit"
    /\ data = <<>>
    /\ Len(schema) = 1 /\ schema[1].data_type = "Struct" /\ schema[1].nullable
    /\ Len(schema[1].fields) = 1 /\ schema[1].fields[1].data_type = "Struct"
    /\ Len(schema[1].fields[1].fields) = 1
    /\ ~schema[1].fields[1].fields[1].nullable
    /\ out_col_array = <<UnitAccessor>>

\* The accessors a successful extraction holds: per leaf in depth-first
\* declaration order, the accessor of the leaf's column, or the null
\* placeholder where there is none.
RECURSIVE LeafAccessors(_, _)
LeafAccessors(fields, array) ==
    IF fields = <<>> THEN <<>>
    ELSE LET f == Head(fields)
             found == /\ array.present
                      /\ Named(array.cols, f.name) # {}
                      /\ TheCol(array.cols, f.name).type # "Null"
             c == TheCol(array.cols, f.name)
             path == Append(array.path, f.name)
             here == IF f.data_type = "Struct"
                     THEN LeafAccessors(f.fields,
                              IF found THEN Some(c.cols, path) ELSE None)
                     ELSE IF found THEN <<ColAccessor(c.type, path)>>
                     ELSE <<UnitAccessor>>
         IN  here \o LeafAccessors(Tail(fields), array)

\* C4: when extract_columns succeeds the list holds one accessor per
\* non-struct leaf of the schema, in depth-first declaration order, a nested
\* struct's leaves in the struct's place; its length is the schema's number
\* of leaves whatever the batch holds.
C4_FlatSchemaOrder ==
    pc = "visit" =>
        /\ Len(out_col_array) = NumLeaves(schema)
        /\ out_col_array = LeafAccessors(schema, Some(data, <<>>))

\* A leaf, a struct with a leaf, a leaf; the middle one inside a column.
C4_Witness ==
    /\ pc = "visit"
    /\ Len(schema) = 2 /\ schema[1].data_type = "Struct" /\ schema[2].data_type = "String"
    /\ Len(out_col_array) = 2
    /\ out_col_array[1] = ColAccessor("Utf8", <<"a", "a">>)
    /\ out_col_array[2] = ColAccessor("Utf8", <<"b">>)

\* C5: a column found by name whose type is the null type is handled as no
\* column at all: a required field in a present container fails with
\* MissingData, a nullable struct is entered with an absent container, a
\* nullable non-struct field pushes the null placeholder; extract_column
\* never sees such a column.
C5_Step ==
    (AtField /\ Top.array.present /\ Named(Top.array.cols, CurField.name) # {}
        /\ TheCol(Top.array.cols, CurField.name).type = "Null")
    => IF ~CurField.nullable
       THEN FailedWith(MissingData(CurField.name)) /\ out_col_array' = out_col_array
       ELSE IF CurField.data_type = "Struct" THEN Entered(None)
       ELSE Pushed(UnitAccessor)

C5_NeverExtracted ==
    /\ result.native # "Null"
    /\ \A i \in 1..Len(out_col_array) : out_col_array[i].kind # "Null"

C5_NullTypeIsNotFound == [][C5_Step]_vars /\ []C5_NeverExtracted

\* A nullable struct whose column is null-typed: its leaf is a placeholder.
C5_Witness ==
    /\ pc = "visit"
    /\ Len(schema) = 1 /\ schema[1].data_type = "Struct" /\ schema[1].nullable
    /\ Len(schema[1].fields) = 1
    /\ Len(data) = 1 /\ data[1].type = "Null"
    /\ out_col_array = <<UnitAccessor>>

\* C6: for a found column (not null-typed), the six primitive, list and map
\* rows push exactly the column's accessor, Struct/Struct pushes nothing and
\* enters the struct column as a present container, and any other pair
\* fails with UnexpectedColumnType, nothing pushed.
C6_Step ==
    (AtField /\ Top.array.present /\ Named(Top.array.cols, CurField.name) # {}
        /\ TheCol(Top.array.cols, CurField.name).type # "Null")
    => LET col == TheCol(Top.array.cols, CurField.name)
           path == Append(Top.array.path, CurField.name)
       IN  IF <<col.type, CurField.data_type>> \in C6_Pushes
           THEN Pushed(ColAccessor(col.type, path))
           ELSE IF <<col.type, CurField.data_type>> = <<"Struct", "Struct">>
           THEN Entered(Some(col.cols, path))
           ELSE /\ result'.kind = "UnexpectedColumnType"
                /\ pc' = "done" /\ visits' = <<>>
                /\ out_col_array' = out_col_array

C6_TypeTable == [][C6_Step]_vars

\* A Map column under a Map field: its accessor is the whole list.
C6_Witness ==
    /\ pc = "visit"
    /\ Len(schema) = 1 /\ schema[1].data_type = "Map"
    /\ Len(data) = 1 /\ data[1].type = "Map"
    /\ out_col_array = <<ColAccessor("Map", <<"a">>)>>

\* C7: the error for an unmatched pair tells a declared type without a
\* native representation (the "Unsupported data type" message) from one
\* whose native representation differs from the column's (the "Type
\* mismatch" message, which carries the declared and the native type).
C7_Step ==
    (AtField /\ Top.array.present /\ Named(Top.array.cols, CurField.name) # {}
        /\ TheCol(Top.array.cols, CurField.name).type # "Null"
        /\ <<TheCol(Top.array.cols, CurField.name).type, CurField.data_type>>
              \notin C6_Table)
    => LET native == TheCol(Top.array.cols, CurField.name).type
           declared == CurField.data_type
       IN  /\ result'.kind = "UnexpectedColumnType"
           /\ result'.field = CurField.name
           /\ ~TryIntoArrow(declared).ok =>
                 result'.msg = "On {}: Unsupported data type {}: {}"
           /\ (TryIntoArrow(declared).ok /\ TryIntoArrow(declared).type # native) =>
                 /\ result'.msg = "Type mismatch on {}: expected {}, got {}"
                 /\ result'.declared = declared
                 /\ result'.native = native

C7_MismatchError == [][C7_Step]_vars

\* An Integer field over a string column.
C7_Witness ==
    /\ pc = "done"
    /\ Len(schema) = 1 /\ Len(data) = 1
    /\ schema[1].data_type = "Integer" /\ data[1].type = "Utf8"
    /\ result = Error("UnexpectedColumnType",
                      "Type mismatch on {}: expected {}, got {}", "a", "Integer", "Utf8")

(***************************************************************************)
(* Properties of the derive macros.                                        *)
(***************************************************************************)
\* The positions of `name` that hold no '_', in order.
KeptPositions(name) ==
    LET kept == {i \in 1..Len(name) : name[i] # "_"}
    IN  [j \in 1..Cardinality(kept) |->
            CHOOSE p \in kept : Cardinality({q \in kept : q < p}) = j - 1]

\* The upper-case form of the letters of the inputs.
C8_Upper(c) ==
    CASE c = "a" -> "A" [] c = "b" -> "B" [] c = "s" -> "S" [] c = "i" -> "I"
      [] c = "d" -> "D" [] OTHER -> c

\* C8: the name get_schema_name returns is the identifier with every '_'
\* deleted and exactly the characters that came right after a '_'
\* upper-cased, the others unchanged and in order: no '_' is left, an
\* identifier without '_' is returned as it is, and schema_string gives
\* schemaString.
C8_WireName ==
    (mpc = "done" /\ macro_call.fn = "get_schema_name" /\ ~macro_ret.panic) =>
        LET name == macro_call.arg
            kept == KeptPositions(name)
            wire == macro_ret.value
        IN  /\ Len(wire) = Len(kept)
            /\ \A j \in 1..Len(kept) :
                  wire[j] = IF kept[j] > 1 /\ name[kept[j] - 1] = "_"
                            THEN C8_Upper(name[kept[j]])
                            ELSE name[kept[j]]
            /\ \A j \in 1..Len(wire) : wire[j] # "_"
            /\ (\A i \in 1..Len(name) : name[i] # "_") => wire = name
            /\ name = schema_string => wire = schemaString

\* schema_string has been turned into schemaString.
C8_Witness ==
    /\ mpc = "done"
    /\ macro_call = [fn |-> "get_schema_name", arg |-> schema_string]
    /\ macro_ret = Returned(schemaString)

\* The wire names of the identifiers derive_schema is checked on.
C9_Wire(ident) ==
    CASE ident = id -> id
      [] ident = schema_string -> schemaString
      [] ident = <<"a", "_", "_", "b">> -> <<"a", "B">>

\* C9: for a struct with named fields of path types, the generated
\* get_field builds a non-nullable struct field with one get_field call per
\* named field, in declaration order, under the field's wire name, on the
\* last segment of the field's type: with that segment's <...> arguments as
\* a turbofish when it has them, and bare otherwise.
C9_GeneratedSchema ==
    (mpc = "done" /\ macro_call.fn = "derive_schema") =>
        LET input == macro_call.arg
            fields == input.data.fields
            paths == /\ input.data.kind = "StructNamed"
                     /\ \A i \in 1..Len(fields) : fields[i].ty.kind = "Path"
        IN  /\ paths <=> ~macro_ret.panic
            /\ ~macro_ret.panic =>
                  /\ macro_ret.value.impl_for = input.ident
                  /\ macro_ret.value.nullable = FALSE
                  /\ Len(macro_ret.value.struct_type) = Len(fields)
                  /\ \A i \in 1..Len(fields) :
                        LET fin == fields[i].ty.segments[Len(fields[i].ty.segments)]
                            generated == macro_ret.value.struct_type[i]
                        IN  /\ generated.name = C9_Wire(fields[i].ident)
                            /\ generated.type_ident = fin.ident
                            /\ generated.turbofish =
                                  IF fin.arguments = "AngleBracketed" THEN fin.args ELSE ""

\* struct Metadata { schema_string: Option<String>, id: String }
C9_Witness ==
    /\ mpc = "done"
    /\ macro_call.fn = "derive_schema"
    /\ ~macro_ret.panic
    /\ macro_ret.value.nullable = FALSE
    /\ macro_ret.value.struct_type =
          << GetFieldCall("Option", "<String>", schemaString),
             GetFieldCall("String", "", id) >>

(***************************************************************************)
(* Properties of the schema registry.                                      *)
(***************************************************************************)
\* The registry constant of each action kind.
C10_Kinds ==
    { ADD_FIELD, REMOVE_FIELD, METADATA_FIELD, PROTOCOL_FIELD, CDC_FIELD, TXN_FIELD,
      DOMAIN_METADATA_FIELD, COMMIT_INFO_FIELD, CHECKPOINT_METADATA_FIELD, SIDECAR_FIELD }

\* C10: once built, LOG_SCHEMA holds one top-level field for each of the ten
\* action kinds, equal to the kind's registry constant, and no two of its
\* fields share a name.
C10_LogSchemaAllKinds ==
    statics["LOG_SCHEMA"].built =>
        LET fields == statics["LOG_SCHEMA"].value.fields
        IN  /\ \A kind \in C10_Kinds : \E i \in 1..Len(fields) : fields[i] = kind
            /\ \A i, j \in 1..Len(fields) : i # j => fields[i].name # fields[j].name

(***************************************************************************)
(* Properties of the scan boundary.                                        *)
(***************************************************************************)
\* The handles the kernel makes for the time of one callback.
TransientKinds == {"EngineDataHandle", "CDvInfo", "CStringMap"}

Allocated(h) == heap[h].drops = 0

\* C11: once the callback a transient handle was made for has returned, the
\* handle is destroyed: between boundary calls no batch handle, no
\* deletion-vector handle and no partition-value-map handle is allocated,
\* and inside visit_scan_data none of the per-file handles outlives its
\* callback.
C11_TransientsDestroyed ==
    /\ ffi_pc = "host" =>
          \A h \in DOMAIN heap : heap[h].kind \in TransientKinds => ~Allocated(h)
    /\ ffi_pc = "visit_scan_data" =>
          \A h \in DOMAIN heap : heap[h].kind \in {"CDvInfo", "CStringMap"} => ~Allocated(h)

\* C12: a boundary call that fails gives its caller an error value: no
\* panic of selection_vector_from_dv or visit_scan_data reaches the
\* boundary.
C12_NoPanicAtBoundary ==
    /\ ffi_pc \notin PanicOutcomes
    /\ ffi_ret.value # "panic"

\* The calls that borrow a handle.
BorrowingCalls == {"get_global_scan_state", "get_from_map", "selection_vector_from_dv"}

BorrowedKinds == {"Scan", "CStringMap", "CDvInfo", "GlobalScanState"}

\* A borrowing call finishes with this step, by a return or by an unwinding
\* panic.
BorrowingCallFinishes ==
    /\ ffi_ret'.fn \in BorrowingCalls
    /\ ffi_pc' # "aborted"
    /\ \/ ffi_ret' # ffi_ret
       \/ ffi_pc = "file_callback" /\ ffi_pc' = "file_callback"

C13_Step ==
    BorrowingCallFinishes =>
        \A h \in DOMAIN heap : heap[h].kind \in BorrowedKinds => heap'[h] = heap[h]

\* C13: however a borrowing call finishes, every Scan, CStringMap, CDvInfo
\* and GlobalScanState it was given (and any other) is as it was before the
\* call: still allocated, with the same contents.
C13_BorrowLeavesAllocated == [][C13_Step]_vars

IteratorKinds == {"KernelScanDataIterator", "KernelScanFileIterator"}

NextCalls == {"kernel_scan_data_next", "kernel_scan_files_next"}

\* This step ends a next call on iterator `it`.
NextReturns(it) ==
    /\ ffi_pc' = "host"
    /\ ffi_ret'.fn \in NextCalls
    /\ ffi_ret'.handle = it
    /\ ffi_ret' # ffi_ret \/ heap' # heap \/ ffi_pc = "visitor"

C14_Step ==
    \A it \in DOMAIN heap :
        (heap[it].kind \in IteratorKinds /\ Allocated(it) /\ heap'[it].drops = 0) =>
            LET calls == Len(heap'[it].out) - Len(heap[it].out)
            IN  /\ calls \in {0, 1}
                /\ calls = 1 =>
                      /\ ffi_pc = "host"
                      /\ \/ ffi_pc' = "visitor" /\ cur'.it = it
                         \/ NextReturns(it) /\ ffi_ret'.value = "true"
                /\ NextReturns(it) =>
                      /\ ffi_ret'.value \in {"true", "false", "Err"}
                      /\ ffi_ret'.value = "true" =>
                            /\ ffi_ret'.invoked = 1
                            /\ ffi_pc = "host" => calls = 1
                      /\ ffi_ret'.value # "true" => calls = 0 /\ ffi_ret'.invoked = 0
                      /\ heap[it].items = <<>> =>
                            ffi_ret'.value = "false" /\ heap'[it].out = <<>>

\* While the data visitor runs, it has been called once in this call.
C14_Once ==
    ffi_pc \in {"visitor", "visit_scan_data", "file_callback"} =>
        Len(heap[cur.it].out) = cur.out0 + 1

IsOk(item) == item.ok

\* The ids of the successful items among the first `pos` of `items`.
Successful(items, pos) ==
    LET oks == SelectSeq(SubSeq(items, 1, pos), IsOk)
    IN  [k \in 1..Len(oks) |-> oks[k].id]

\* C15: what an iterator has handed to the callback so far is the
\* successful items among those it has taken from its source, in the
\* source's order, each once; the batch handle the visitor holds is the
\* last of them.
C15_SourceOrder ==
    /\ \A it \in DOMAIN heap :
          (heap[it].kind \in IteratorKinds /\ Allocated(it)) =>
              /\ heap[it].pos <= Len(heap[it].items)
              /\ heap[it].out = Successful(heap[it].items, heap[it].pos)
    /\ (ffi_pc = "visitor" /\ Allocated(cur.batch)) =>
          heap[cur.batch].item = heap[cur.it].out[Len(heap[cur.it].out)]

\* A failed item, then a successful one that was delivered.
C15_Witness ==
    \E it \in DOMAIN heap :
        /\ heap[it].kind = "KernelScanFileIterator"
        /\ Allocated(it)
        /\ heap[it].items = <<Item(FALSE, 1), Item(TRUE, 2)>>
        /\ heap[it].pos = 2
        /\ heap[it].out = <<2>>

C16_Returned ==
    ffi_ret.fn = "get_from_map" =>
        LET map == ffi_ret.handle
            key == ffi_ret.arg
        IN  /\ heap[map].kind = "CStringMap"
            /\ Allocated(map)
            /\ key \in DOMAIN heap[map].values =>
                  /\ ffi_ret.allocs = <<heap[map].values[key]>>
                  /\ ffi_ret.ptr = allocate_fn(heap[map].values[key])
            /\ key \notin DOMAIN heap[map].values =>
                  /\ ffi_ret.allocs = <<>>
                  /\ ffi_ret.ptr = NULL

C16_Step ==
    (ffi_pc = "file_callback" /\ ffi_pc' = "file_callback" /\ ffi_ret'.fn = "get_from_map")
        => heap' = heap

\* C16: get_from_map calls allocate_fn once, with the value the map holds
\* for the key, and returns what allocate_fn returned, when the map has the
\* key; it returns NULL without calling allocate_fn when it has not; the
\* map stays allocated with the contents it had.
C16_LookupOnly == [][C16_Step]_vars /\ []C16_Returned

\* The value of the second of two partition columns was asked for.
C16_Witness ==
    /\ ffi_ret.fn = "get_from_map"
    /\ ffi_ret.arg = "k2"
    /\ ffi_ret.allocs = <<"v2">>
    /\ ffi_ret.ptr = allocate_fn("v2")
    /\ DOMAIN heap[ffi_ret.handle].values = Keys

\* This step is a call of kernel_scan_data_init.
DataInitReturns ==
    /\ ffi_pc = "host"
    /\ ffi_pc' = "host"
    /\ ffi_ret'.fn = "kernel_scan_data_init"
    /\ ffi_ret' # ffi_ret \/ heap' # heap

C17_Step ==
    DataInitReturns =>
        LET h == ffi_ret'.handle
        IN  /\ heap[h].kind = "Scan"
            /\ Allocated(h)
            /\ heap'[h].drops = 1
            /\ ffi_ret'.value \in {"Ok", "Err"}
            /\ ffi_ret'.value = "Err" => Len(heap') = Len(heap)
            /\ ffi_ret'.value = "Ok" =>
                  /\ Len(heap') = Len(heap) + 1
                  /\ heap'[Len(heap')].kind = "KernelScanDataIterator"
                  /\ heap'[Len(heap')].drops = 0

\* A Scan is borrowed (by get_global_scan_state) with this step.
ScanBorrowed ==
    /\ ffi_ret'.fn = "get_global_scan_state"
    /\ ffi_ret' # ffi_ret

C17_Borrow ==
    ScanBorrowed => \E h \in DOMAIN heap : heap[h].kind = "Scan" /\ Allocated(h)

C17_Once == \A h \in DOMAIN heap : heap[h].kind = "Scan" => heap[h].drops <= 1

\* C17: kernel_scan_data_init destroys the Scan it is given, whether it
\* returns the iterator or an error; get_global_scan_state runs only while
\* a Scan is allocated, that is before that call; no Scan is destroyed
\* twice.
C17_ScanConsumed == [][C17_Step /\ C17_Borrow]_vars /\ []C17_Once

\* kernel_scan_data_init has failed, and the Scan is gone.
C17_Witness ==
    /\ ffi_ret.fn = "kernel_scan_data_init"
    /\ ffi_ret.value = "Err"
    /\ heap[ffi_ret.handle].kind = "Scan"
    /\ heap[ffi_ret.handle].drops = 1
    /\ Handles("KernelScanDataIterator") = {}

\* selection_vector_from_dv returns with this step.
SelectionReturns ==
    /\ ffi_pc = "file_callback"
    /\ ffi_pc' = "file_callback"
    /\ ~cur.selected
    /\ cur'.selected

C18_Step ==
    SelectionReturns =>
        LET vopt == heap[cur.dv].dv
        IN  /\ ffi_ret'.fn = "selection_vector_from_dv"
            /\ vopt = "None" <=> ffi_ret'.value = "NULL"
            /\ ffi_ret'.value = "NULL" => heap' = heap
            /\ vopt = "Some" =>
                  /\ ffi_ret'.value = "slice"
                  /\ Len(heap') = Len(heap) + 1
                  /\ ffi_ret'.handle = Len(heap')
                  /\ heap'[Len(heap')].kind = "KernelBoolSlice"
                  /\ heap'[Len(heap')].drops = 0

\* C18: when it returns, selection_vector_from_dv returns NULL exactly when
\* the file has no deletion vector, and then allocates nothing; otherwise
\* it returns a newly allocated boolean slice.
C18_NullIsNoDeletionVector == [][C18_Step]_vars

\* A file without deletion vector was asked for its selection vector.
C18_Witness ==
    /\ ffi_pc = "file_callback"
    /\ cur.selected
    /\ heap[cur.dv].dv = "None"
    /\ ffi_ret = Plain("selection_vector_from_dv", "NULL", 0)
    /\ Handles("KernelBoolSlice") = {}

LiveIterators == {h \in DOMAIN heap : heap[h].kind \in IteratorKinds /\ Allocated(h)}

\* C19: every iterator that is allocated holds a counted reference of its
\* own to the engine interface: the strong count covers the host's
\* references and one for each such iterator, so the interface is alive
\* whenever next can be called, whatever the host has released.
C19_IteratorHoldsEngine ==
    /\ \A it \in LiveIterators : heap[it].engine
    /\ arc_strong >= host_refs + Cardinality(LiveIterators)
    /\ LiveIterators # {} => arc_strong >= 1

\* The host has released its reference, and next has reported an error
\* through the iterator's own.
C19_Witness ==
    /\ host_refs = 0
    /\ ffi_ret.fn = "kernel_scan_data_next"
    /\ ffi_ret.value = "Err"
    /\ ffi_ret.handle \in LiveIterators
    /\ arc_strong = 1

\* C20: no object is destroyed twice, whatever the host's callbacks do with
\* the handles they are given.
C20_NoDoubleDestroy == \A h \in DOMAIN heap : heap[h].drops <= 1

\* This step is a next call on iterator `it` (to its return, or to the
\* call of the data visitor).
NextCalled(it) ==
    /\ ffi_pc = "host"
    /\ \/ NextReturns(it)
       \/ ffi_pc' = "visitor" /\ cur'.it = it

C21_Step ==
    \A it \in DOMAIN heap :
        (heap[it].kind \in IteratorKinds /\ Allocated(it) /\ NextCalled(it)
            /\ heap[it].pos < Len(heap[it].items)) =>
            LET item == heap[it].items[heap[it].pos + 1]
            IN  /\ heap'[it].pos = heap[it].pos + 1
                /\ ~item.ok =>
                      /\ ffi_pc' = "host"
                      /\ ffi_ret'.value = "Err"
                      /\ ffi_ret'.invoked = 0
                      /\ heap'[it].out = heap[it].out
                      /\ Len(heap') = Len(heap)
                      /\ heap'[it].drops = 0
                /\ item.ok =>
                      /\ ffi_pc' = "visitor" \/ ffi_ret'.value = "true"
                      /\ heap'[it].out = Append(heap[it].out, item.id)

\* C21: a next call that finds an error item next in its source returns an
\* error result; it runs no callback and allocates nothing; the item is
\* taken from the source and the iterator stays allocated, so that the
\* next call goes on with the item after it.
C21_ErrorItemReported == [][C21_Step]_vars

\* A data iterator has reported its first item as an error and then
\* visited its second.
C21_Witness ==
    /\ ffi_pc = "host"
    /\ ffi_ret.fn = "kernel_scan_data_next"
    /\ ffi_ret.value = "true"
    /\ Allocated(ffi_ret.handle)
    /\ heap[ffi_ret.handle].items = <<Item(FALSE, 1), Item(TRUE, 2)>>
    /\ heap[ffi_ret.handle].out = <<2>>

(***************************************************************************)
(* Properties of extract as a whole.                                       *)
(***************************************************************************)
RECURSIVE Walk(_, _, _)
\* The fields of `fields` taken one after the other, depth first, up to the
\* first that fails: its error (Ok when none fails) and the accessors
\* gathered on the way, after those of `out`.
Walk(fields, array, out) ==
    IF fields = <<>> THEN [err |-> Ok, out |-> out]
    ELSE LET f == Head(fields)
             col == LookupCol(array, f)
             path == Append(array.path, f.name)
             here ==
                 IF col.found
                 THEN LET arm == MatchArm(col.col.type, f.data_type)
                      IN  IF arm = "recurse"
                          THEN Walk(f.fields, Some(col.col.cols, path), out)
                          ELSE IF arm = "push"
                          THEN [err |-> Ok, out |-> Append(out, ColAccessor(col.col.type, path))]
                          ELSE [err |-> get_error_for_types(f.data_type, col.col.type, f.name),
                                out |-> out]
                 ELSE IF MayBeNull(array, f)
                 THEN IF f.data_type = "Struct"
                      THEN Walk(f.fields, None, out)
                      ELSE [err |-> Ok, out |-> Append(out, UnitAccessor)]
                 ELSE [err |-> MissingData(f.name), out |-> out]
         IN  IF here.err # Ok THEN here ELSE Walk(Tail(fields), array, here.out)

\* C22: extract calls the visitor at most once, and as the last thing it
\* does. When no field fails it calls it once, with length() rows and the
\* accessors of the whole schema, and returns what the visitor returned.
\* When a field fails it does not call it: it returns the error of the
\* first failing field in schema order, and has gathered the accessors of
\* the fields before that one only.
C22_VisitorOnce ==
    /\ Len(visits) <= 1
    /\ Len(row_counts) = Len(visits)
    /\ pc # "done" => visits = <<>>
    /\ pc = "done" =>
          LET w == Walk(schema, Some(data, <<>>), <<>>)
          IN  /\ w.err = Ok =>
                    /\ visits = <<w.out>>
                    /\ row_counts = <<length>>
                    /\ result \in VisitorResults
              /\ w.err # Ok =>
                    /\ visits = <<>>
                    /\ row_counts = <<>>
                    /\ result = w.err
                    /\ out_col_array = w.out
                    /\ stack = <<>>

\* The second of three fields has failed: the first one's accessor is
\* all that was gathered, and the visitor was not called.
C22_Witness ==
    /\ pc = "done"
    /\ Len(schema) = 3
    /\ result = MissingData("b")
    /\ Len(out_col_array) = 1
    /\ visits = <<>>
    /\ num_rows = 2

(***************************************************************************)
(* The registry's action fields under extraction.                          *)
(***************************************************************************)
\* Every column of `cols` is the whole column of the field of its name.
WellFormed(fields, cols) ==
    \A i \in 1..Len(cols) :
        \E j \in 1..Len(fields) : cols[i] = FullColumns(<<fields[j]>>)[1]

\* The accessors of the i-th field of `fields` within the accessor list.
Slice(accessors, fields, i) ==
    SubSeq(accessors, NumLeaves(SubSeq(fields, 1, i - 1)) + 1,
                      NumLeaves(SubSeq(fields, 1, i)))

\* C23: every action field the registry has built is nullable, so an
\* extraction of the log schema or of a projection of it never fails with
\* MissingData for an action whose column the batch lacks. When the columns
\* the batch does have are whole, the extraction succeeds, with one
\* accessor per leaf of the schema: null accessors for each absent action,
\* however its inner fields are declared, and column accessors for each
\* present one.
C23_AbsentActionsAreNull ==
    /\ \A n \in DOMAIN FieldStatics : statics[n].built => is_nullable(statics[n].value)
    /\ \A i \in 1..Len(schema) : is_nullable(schema[i])
    /\ pc = "done" =>
          /\ result.kind = "MissingData" /\ visits = <<>> =>
                /\ \A i \in 1..Len(schema) : result.field # schema[i].name
                /\ ~WellFormed(schema, data)
          /\ WellFormed(schema, data) =>
                /\ Len(visits) = 1
                /\ Len(visits[1]) = NumLeaves(schema)
                /\ \A i \in 1..Len(schema) :
                      LET mine == Slice(visits[1], schema, i)
                      IN  IF Named(data, schema[i].name) = {}
                          THEN \A k \in 1..Len(mine) : mine[k] = UnitAccessor
                          ELSE \A k \in 1..Len(mine) :
                                  /\ mine[k] # UnitAccessor
                                  /\ mine[k].col[1] = schema[i].name

\* Metadata and protocol were asked of a batch that has the metaData column
\* only: the visitor got the four null accessors of protocol after those of
\* metaData.
C23_Witness ==
    /\ pc = "done"
    /\ schema = <<METADATA_FIELD, PROTOCOL_FIELD>>
    /\ data = FullColumns(<<METADATA_FIELD>>)
    /\ Len(visits) = 1
    /\ Len(visits[1]) = 13
    /\ \A k \in 10..13 : visits[1][k] = UnitAccessor
    /\ \E f \in 1..Len(PROTOCOL_FIELD.fields) : ~is_nullable(PROTOCOL_FIELD.fields[f])

(***************************************************************************)
(* The two map accessors against each other.                               *)
(***************************************************************************)
\* C24: what get returns for a row and a key is what materialize holds for
\* them: Some(v) exactly when the materialized row maps the key to Some(v),
\* None exactly when the materialized row has no such key.
C24_GetAgreesWithMaterialize ==
    map_ret.fn = "get" =>
        LET m == materialize(map_array, map_ret.row)
            key == map_ret.key
        IN  /\ map_ret.ret.some <=> (key \in DOMAIN m /\ m[key] = map_ret.ret)
            /\ ~map_ret.ret.some <=> key \notin DOMAIN m

\* get and materialize do agree on the rows whose entries for the key are
\* one at most and not null.
C24_AgreeOnPlainRows ==
    map_ret.fn = "get" =>
        LET m == materialize(map_array, map_ret.row)
            key == map_ret.key
            mine == { i \in (map_array.offsets[map_ret.row + 1] + 1)..map_array.offsets[map_ret.row + 2] :
                        map_array.keys[i] = StringSlot(TRUE, key) }
        IN  (Cardinality(mine) <= 1 /\ \A i \in mine : map_array.values[i].valid) =>
                /\ map_ret.ret.some <=> (key \in DOMAIN m /\ m[key] = map_ret.ret)
                /\ ~map_ret.ret.some <=> key \notin DOMAIN m

(***************************************************************************)
(* The iterator of read_parquet_files.                                     *)
(***************************************************************************)
\* C25: read_parquet_files opens no file itself. The iterator it returns
\* yields one item per file, in the order of `files`: the i-th item is the
\* result of reading the i-th file, Ok exactly when that file was read,
\* and a file is opened only when its item is asked for. An Err item does
\* not end the iteration: the iterator ends after as many items as there
\* are files, none for an empty list.
C25_OneResultPerFile ==
    /\ pq_pc = "call" => read_results = <<>> /\ opened = <<>>
    /\ Len(read_results) <= Len(files)
    /\ \A i \in 1..Len(read_results) :
          /\ read_results[i].location = i
          /\ read_results[i].ok <=> files[i] = "ok"
    /\ \A j \in 1..Len(opened) : opened[j] <= Len(read_results)
    /\ pq_pc = "iterating" => Len(locations) = Len(files) - Len(read_results)
    /\ pq_pc = "done" => Len(read_results) = Len(files)

\* The first of three files could not be opened: its item is an Err, and
\* the items of the two files after it were produced all the same.
C25_Witness ==
    /\ pq_pc = "done"
    /\ Len(files) = 3
    /\ files[1] = "missing" /\ files[2] = "ok" /\ files[3] = "no_batches"
    /\ Len(read_results) = 3
    /\ ~read_results[1].ok /\ read_results[2].ok /\ ~read_results[3].ok
    /\ opened = <<1, 2, 3>>

====
